---- MODULE Spec2Model ----
(***************************************************************************)
(* Ingest normalization pipeline of heimdex: parse_ffprobe_json            *)
(* (app/ingest/ffprobe_parser.py), render_thumbnails                       *)
(* (app/ingest/thumbnails.py) and the strict Sidecar schema                *)
(* (app/ingest/sidecar_schema.py).                                         *)
(*                                                                         *)
(* JSON values are tagged records V = [t, n, d, s] so that a field may     *)
(* hold a value of the wrong type.  Durations and thumbnail timestamps are *)
(* fixed-point milliseconds, frame rates hundredths, datetimes half        *)
(* seconds (so that the one-second formatting is a real truncation).       *)
(***************************************************************************)
EXTENDS Integers, Sequences, FiniteSets, TLC

(* ---------------------------------------------------------------- bounds *)
\* Longest stream list of a raw probe document.
MaxStreams == 2
\* Wall-clock instants (half seconds) at which an invocation may run.
MaxClock == 3

\* Sub-second resolution of the modelled datetimes.
HalfSecondsPerSecond == 2

\* Most rows the jobs table takes.
MaxJobs == 2

\* Most enqueue requests one worker serves; a request's number is its time.
MaxRequests == 3

\* Threads of one process that look tool versions up.
MaxCallers == 2

\* Most invocations of one tool for its version.
MaxToolRuns == 3

\* Database sessions (requests) open at a time.
MaxSessions == 2

(* ----------------------------------------------------------- JSON values *)
V(t, n, d, s) == [t |-> t, n |-> n, d |-> d, s |-> s]
\* A key that is not in the dict (dict.get gives None, or its default).
Absent == V("absent", 0, 0, "")
Null == V("null", 0, 0, "")
B(b) == V("bool", IF b THEN 1 ELSE 0, 0, "")
I(n) == V("int", n, 0, "")
\* A fixed-point float: n in the unit of the field that holds it.
F(n) == V("float", n, 0, "")
\* A string that is not a number.
S(s) == V("str", 0, 0, s)
\* A string whose text is the decimal numeral of the integer n.
NS(n) == V("numstr", n, 0, "")
\* A decimal numeral of n whose double lies above (r = 1) or below (r = -1)
\* the numeral's value; NS(n) is a numeral the double holds exactly.
NSr(n, r) == V("numstr", n, r, "")
\* A string "n/d" or "n:d".
Rat(n, d) == V("ratstr", n, d, "")
\* A non-empty list or dict: truthy and unhashable.
Obj == V("obj", 0, 0, "")
\* A timestamp string written in format s, showing wall-clock n (half seconds)
\* and, when the format carries one, a UTC offset d (half seconds).
DateStr(fmt, wall, off) == V("datestr", wall, off, fmt)

\* The relative path "thumbs/<asset_id>/<file name>" of a thumbnail file.
PathStr(file) == V("pathstr", file.cs, IF file.kind = "poster" THEN 0 ELSE 1, file.asset)

IsStr(v) == v.t \in {"str", "numstr", "ratstr", "datestr", "pathstr"}
\* dict.get(key)
Get(v) == IF v = Absent THEN Null ELSE v
\* Python truthiness of a JSON value.
Truthy(v) ==
    CASE v.t \in {"absent", "null"} -> FALSE
      [] v.t \in {"bool", "int", "float"} -> v.n # 0
      [] v.t = "str" -> v.s # ""
      [] OTHER -> TRUE
\* a or b
Or(a, b) == IF Truthy(a) THEN a ELSE b

\* round(): the integer nearest to a/b (b > 0), ties to the even one.
RoundDiv(a, b) ==
    LET q == a \div b
        r == a % b
    IN  IF 2 * r < b THEN q
        ELSE IF 2 * r > b THEN q + 1
        ELSE IF q % 2 = 0 THEN q ELSE q + 1

(* ------------------------------------------------- ffprobe_parser helpers *)
\* round(x, ndigits) of the double nearest to a/b (b > 0): the nearest integer
\* in the target unit; on a decimal tie the double's own error r decides
\* (above: up, below: down), and an exactly held tie goes to the even one.
RoundTie(a, b, r) ==
    LET q == a \div b
        m == a % b
    IN  IF 2 * m < b THEN q
        ELSE IF 2 * m > b THEN q + 1
        ELSE IF r > 0 THEN q + 1
        ELSE IF r < 0 THEN q
        ELSE IF q % 2 = 0 THEN q ELSE q + 1

KnownStreamTypes == {"video", "audio", "data", "subtitle"}

\* codec_type values are modelled in lower case; "VIDEO" stands for a value
\* that differs from a known type only by case.
Lower(s) == IF s = "VIDEO" THEN "video" ELSE s

_normalise_stream_type(value) ==
    IF value.t # "str" THEN "other"
    ELSE IF Lower(value.s) \in KnownStreamTypes THEN Lower(value.s)
    ELSE "other"

\* value in (None, "N/A", "")
IsUnavailable(v) == v.t = "null" \/ (v.t = "str" /\ v.s \in {"N/A", ""})

_int_or_none(value) ==
    IF IsUnavailable(value) THEN Null
    ELSE IF value.t \in {"int", "bool", "numstr"} THEN I(value.n)
    ELSE Null

_parse_bitrate_kbps(raw_value) ==
    IF IsUnavailable(raw_value) THEN Null
    ELSE IF raw_value.t \in {"int", "bool", "numstr"} THEN I(RoundDiv(raw_value.n, 1000))
    ELSE Null

\* Mutant of _parse_duration: text that is no number gives 0.0 without a warning.
_parse_duration_Quiet(raw_value) ==
    IF IsUnavailable(raw_value) THEN <<0, "duration_unavailable", 0>>
    ELSE IF raw_value.t \in {"numstr", "float"} THEN <<raw_value.n, "", raw_value.d>>
    ELSE IF raw_value.t \in {"int", "bool"} THEN <<1000 * raw_value.n, "", 0>>
    ELSE <<0, "", 0>>

\* <<duration in ms, warning or "", error sign of the double>>; an int or a
\* bool counts whole seconds.
_parse_duration(raw_value) ==
    IF IsUnavailable(raw_value) THEN <<0, "duration_unavailable", 0>>
    ELSE IF raw_value.t \in {"numstr", "float"} THEN <<raw_value.n, "", raw_value.d>>
    ELSE IF raw_value.t \in {"int", "bool"} THEN <<1000 * raw_value.n, "", 0>>
    ELSE <<0, "duration_unavailable", 0>>

_disposition_default(disposition) ==
    IF disposition.t # "disp" THEN Null
    ELSE IF disposition.s = "nodefault" THEN Null
    ELSE B(disposition.n # 0)

\* "value in {...}" hashes value: a list or dict raises TypeError.
_rational_string_raises(value) == value.t = "obj"

_rational_string(value) ==
    IF ~Truthy(value) \/ (value.t = "str" /\ value.s = "N/A") THEN Null
    ELSE IF value.t \in {"int", "float"} THEN NS(value.n)
    ELSE IF value.t = "bool" THEN S("True")
    ELSE value

\* Hundredths, or Null.
_parse_rational(value) ==
    IF ~Truthy(value) \/ (value.t = "str" /\ value.s \in {"0/0", "N/A"}) THEN Null
    ELSE IF value.t = "numstr" THEN F(100 * value.n)
    ELSE IF value.t = "ratstr" THEN
        IF value.d = 0 THEN Null ELSE F(RoundDiv(100 * value.n, value.d))
    ELSE Null

\* The base rate consulted before the average rate.
_frame_rate_from_stream_RealFirst(payload) ==
    IF _parse_rational(payload.r_frame_rate) # Null
    THEN _parse_rational(payload.r_frame_rate)
    ELSE _parse_rational(payload.avg_frame_rate)

_frame_rate_from_stream(payload) ==
    IF _parse_rational(payload.avg_frame_rate) # Null
    THEN _parse_rational(payload.avg_frame_rate)
    ELSE _parse_rational(payload.r_frame_rate)

_parse_sample_aspect_ratio_raises(value) == value.t = "obj"

\* Thousandths.
_parse_sample_aspect_ratio(value) ==
    IF ~Truthy(value) \/ (value.t = "str" /\ value.s = "N/A") THEN F(1000)
    ELSE IF value.t = "ratstr" /\ value.n = 0 /\ value.d = 1 THEN F(1000)
    ELSE IF value.t \in {"int", "float", "bool"} THEN F(1000 * value.n)
    ELSE IF value.t = "ratstr" THEN
        IF value.d = 0 THEN F(1000)
        ELSE IF value.n > 0 /\ value.d > 0 THEN F(RoundDiv(1000 * value.n, value.d))
        ELSE IF value.n < 0 /\ value.d < 0 THEN F(RoundDiv(1000 * (0 - value.n), 0 - value.d))
        ELSE F(1000)
    ELSE F(1000)

(* ------------------------------------------------------------------ tags *)
TagKeys == {"com.apple.quicktime.creationdate", "creation_time", "date", "title"}
\* The creation-date keys, in the order _determine_created_time looks them up.
tag_keys == <<"com.apple.quicktime.creationdate", "creation_time", "date">>

\* A raw "tags" member: kind "none" (missing or null), "dict", or "str" (a
\* non-empty value that is not a dict).
NoTagValues == [k \in TagKeys |-> Absent]
NoTags == [kind |-> "none", kv |-> NoTagValues]
TagDict(kv) == [kind |-> "dict", kv |-> kv]
BadTags == [kind |-> "str", kv |-> NoTagValues]

\* tags.items() on a value that has none.
_normalise_tags_raises(tags) == tags.kind = "str"

_normalise_tag_value(value) ==
    IF value.t \in {"absent", "null"} THEN Absent
    ELSE IF IsStr(value) THEN value
    ELSE IF value.t = "obj" THEN S("[json]")
    ELSE IF value.t = "bool" THEN S(IF value.n = 1 THEN "True" ELSE "False")
    ELSE NS(value.n)

_normalise_tags(tags) ==
    IF tags.kind # "dict" THEN NoTagValues
    ELSE [k \in TagKeys |-> _normalise_tag_value(tags.kv[k])]

(* ------------------------------------------------------------- datetimes *)
\* A datetime is an instant in half seconds; NoTime is None.
NoTime == 0 - 1

\* datetime.fromisoformat, then the strptime formats: the formats that parse.
ParseableFormats == {"iso_z", "iso_offset", "iso_naive", "space_naive"}

_parse_datetime(value) ==
    IF value.t # "datestr" \/ value.s \notin ParseableFormats THEN NoTime
    ELSE IF value.s = "iso_offset" THEN value.n - value.d
    ELSE value.n

\* The "YYYY-MM-DDTHH:MM:SSZ" text of the instant, its sub-second part dropped.
_format_datetime(value) ==
    DateStr("iso_z", (value \div HalfSecondsPerSecond) * HalfSecondsPerSecond, 0)

(* --------------------------------------------------------------- streams *)
\* One member of raw["streams"], as ffprobe (or a malformed document) gives it.
RawStream(index, codec_type, codec_name, avg, r, w, h, ch, sr, br, disp, tags, sar, profile) ==
    [index |-> index, codec_type |-> codec_type, codec_name |-> codec_name,
     avg_frame_rate |-> avg, r_frame_rate |-> r, width |-> w, height |-> h,
     channels |-> ch, sample_rate |-> sr, bit_rate |-> br, disposition |-> disp,
     tags |-> tags, sample_aspect_ratio |-> sar, profile |-> profile,
     color_space |-> Absent, color_transfer |-> Absent, color_primaries |-> Absent]

\* The normalised entry _parse_streams builds for one stream.
StreamEntry(stream) ==
    [index |-> IF stream.index = Absent THEN I(0) ELSE stream.index,
     type |-> _normalise_stream_type(Get(stream.codec_type)),
     codec |-> Or(Get(stream.codec_name), S("unknown")),
     avg_frame_rate |-> _rational_string(Get(stream.avg_frame_rate)),
     r_frame_rate |-> _rational_string(Get(stream.r_frame_rate)),
     width_px |-> _int_or_none(Get(stream.width)),
     height_px |-> _int_or_none(Get(stream.height)),
     channels |-> _int_or_none(Get(stream.channels)),
     sample_rate_hz |-> _int_or_none(Get(stream.sample_rate)),
     bitrate_kbps |-> _parse_bitrate_kbps(Get(stream.bit_rate)),
     disposition_default |-> _disposition_default(Get(stream.disposition)),
     tags |-> _normalise_tags(stream.tags)]

\* Building the entry of this stream raises (TypeError or AttributeError).
StreamEntryRaises(stream) ==
    \/ _rational_string_raises(Get(stream.avg_frame_rate))
    \/ _rational_string_raises(Get(stream.r_frame_rate))
    \/ _normalise_tags_raises(stream.tags)

\* {**stream, "__payload": entry}
WithPayload(stream) == [raw |-> stream, payload |-> StreamEntry(stream)]

RECURSIVE Filter(_, _)
\* The members of seq whose payload type is type, in their order.
Filter(seq, type) ==
    IF seq = <<>> THEN <<>>
    ELSE IF StreamEntry(Head(seq)).type = type
         THEN <<WithPayload(Head(seq))>> \o Filter(Tail(seq), type)
         ELSE Filter(Tail(seq), type)

\* list.sort(key=index) compares indexes: None, or an int with a str, raises.
SortRaises(payload) ==
    /\ Len(payload) >= 2
    /\ ~(\A i \in 1..Len(payload) : payload[i].index.t \in {"int", "bool"})
    /\ ~(\A i \in 1..Len(payload) : payload[i].index.t = "str")

RECURSIVE InsertByIndex(_, _)
\* e put into the index-sorted sorted, after every entry whose index is <= its own.
InsertByIndex(sorted, e) ==
    IF sorted = <<>> THEN <<e>>
    ELSE IF e.index.n < Head(sorted).index.n THEN <<e>> \o sorted
    ELSE <<Head(sorted)>> \o InsertByIndex(Tail(sorted), e)

\* Mutant of SortByIndex: the payload is left in input order.
SortByIndex_InputOrder(sorted, todo) == sorted \o todo

RECURSIVE SortByIndex(_, _)
\* The stable sort of todo by index, appended into sorted.
SortByIndex(sorted, todo) ==
    IF todo = <<>> THEN sorted
    ELSE SortByIndex(InsertByIndex(sorted, Head(todo)), Tail(todo))

_parse_streams(streams) ==
    LET payload == [i \in 1..Len(streams) |-> StreamEntry(streams[i])]
    IN  [raises |-> \/ \E i \in 1..Len(streams) : StreamEntryRaises(streams[i])
                    \/ SortRaises(payload),
         payload |-> IF SortRaises(payload) THEN payload ELSE SortByIndex(<<>>, payload),
         video_streams |-> Filter(streams, "video"),
         audio_streams |-> Filter(streams, "audio")]

(* ------------------------------------------------------ stream selection *)
IsDefault(item) == _disposition_default(Get(item.raw.disposition)) = B(TRUE)

\* width * height of the payload, a missing dimension counting as 0.
VideoScore(item) == Or(item.payload.width_px, I(0)).n * Or(item.payload.height_px, I(0)).n

\* Mutant of AudioScore: the pair is (sample_rate, channels).
AudioScore_SampleRateFirst(item) ==
    <<(IF Truthy(item.payload.sample_rate_hz) THEN item.payload.sample_rate_hz.n ELSE 0),
      (IF Truthy(item.payload.channels) THEN item.payload.channels.n ELSE 0)>>

\* (channels, sample_rate) of the payload, a missing value counting as 0.
AudioScore(item) ==
    <<Or(item.payload.channels, I(0)).n, Or(item.payload.sample_rate_hz, I(0)).n>>

\* Python's order on score keys (an int as a 1-tuple): lexicographic.
KeyLess(a, b) == \E k \in 1..Len(a) : a[k] < b[k] /\ \A l \in 1..(k - 1) : a[l] = b[l]

\* max(streams, key=score): the first member no other member's score exceeds.
FirstMax(streams, keys) ==
    LET best == CHOOSE i \in 1..Len(streams) :
                    /\ \A j \in 1..Len(streams) : ~KeyLess(keys[i], keys[j])
                    /\ \A j \in 1..(i - 1) : KeyLess(keys[j], keys[i])
    IN  streams[best]

\* default_streams[0] when there is one, else the best score.
SelectStream(streams, keys) ==
    LET defaults == {i \in 1..Len(streams) : IsDefault(streams[i])}
    IN  IF defaults # {}
        THEN streams[CHOOSE i \in defaults : \A j \in defaults : i <= j]
        ELSE FirstMax(streams, keys)

\* Mutant of _select_video_stream: the default flag is ignored.
_select_video_stream_LargestOnly(streams) ==
    FirstMax(streams, [i \in 1..Len(streams) |-> <<VideoScore(streams[i])>>])

_select_video_stream(streams) ==
    SelectStream(streams, [i \in 1..Len(streams) |-> <<VideoScore(streams[i])>>])

_select_audio_stream(streams) ==
    SelectStream(streams, [i \in 1..Len(streams) |-> AudioScore(streams[i])])

\* <<summary or Null, warning or "">>
_summarise_video_stream(streams) ==
    IF streams = <<>> THEN <<Null, "">>
    ELSE LET selected == _select_video_stream(streams)
             payload == selected.payload
             frame_rate == _frame_rate_from_stream(payload)
         IN  <<[codec |-> payload.codec,
                profile |-> Get(selected.raw.profile),
                width_px |-> Or(payload.width_px, I(0)),
                height_px |-> Or(payload.height_px, I(0)),
                pixel_aspect_ratio |->
                    _parse_sample_aspect_ratio(Get(selected.raw.sample_aspect_ratio)),
                frame_rate_fps |-> frame_rate,
                color_space |-> Get(selected.raw.color_space),
                color_transfer |-> Get(selected.raw.color_transfer),
                color_primaries |-> Get(selected.raw.color_primaries)],
               IF frame_rate = Null THEN "frame_rate_unavailable" ELSE "">>

_summarise_video_stream_raises(streams) ==
    /\ streams # <<>>
    /\ _parse_sample_aspect_ratio_raises(
           Get(_select_video_stream(streams).raw.sample_aspect_ratio))

\* Mutant of _summarise_audio_stream: no warning when there is no audio stream.
_summarise_audio_stream_Silent(streams) ==
    IF streams = <<>> THEN <<Null, "">>
    ELSE <<[codec |-> streams[1].payload.codec,
            channels |-> I(0), sample_rate_hz |-> I(0), bitrate_kbps |-> Null], "">>

_summarise_audio_stream(streams) ==
    IF streams = <<>> THEN <<Null, "no_audio_stream">>
    ELSE LET payload == _select_audio_stream(streams).payload
         IN  <<[codec |-> payload.codec,
                channels |-> Or(payload.channels, I(0)),
                sample_rate_hz |-> Or(payload.sample_rate_hz, I(0)),
                bitrate_kbps |-> payload.bitrate_kbps],
               "">>

(* --------------------------------------------------------- creation time *)
\* The timestamps parsed from the creation-date keys of one normalised tag map.
TagCandidates(tags) ==
    {_parse_datetime(tags[tag_keys[i]]) : i \in
        {i \in 1..Len(tag_keys) :
            /\ Truthy(tags[tag_keys[i]])
            /\ _parse_datetime(tags[tag_keys[i]]) # NoTime}}

Min(set) == CHOOSE x \in set : \A y \in set : x <= y

\* Mutant of _determine_created_time: modified_time is never used.
_determine_created_time_IgnoresModified(source_ctx, format_tags, streams, default_fallback) ==
    LET candidates ==
            TagCandidates(format_tags) \cup
            UNION {TagCandidates(_normalise_tags(streams[i].raw.tags)) : i \in 1..Len(streams)}
    IN  IF source_ctx.created_time # NoTime THEN source_ctx.created_time
        ELSE IF candidates # {} THEN Min(candidates)
        ELSE default_fallback

\* streams: the members with a payload that parse_ffprobe_json hands over.
_determine_created_time(source_ctx, format_tags, streams, default_fallback) ==
    LET candidates ==
            TagCandidates(format_tags) \cup
            UNION {TagCandidates(_normalise_tags(streams[i].raw.tags)) : i \in 1..Len(streams)}
    IN  IF source_ctx.created_time # NoTime THEN source_ctx.created_time
        ELSE IF candidates # {} THEN Min(candidates)
        ELSE IF source_ctx.modified_time # NoTime THEN source_ctx.modified_time
        ELSE default_fallback

(* ---------------------------------------------------- thumbnail manifest *)
\* duration_s >= 60.0, in milliseconds.
SampleThresholdMs == 60000

Slot(timestamp_ms) ==
    [timestamp_s |-> F(timestamp_ms), path |-> S(""), width_px |-> I(0), height_px |-> I(0)]

\* Mutant of _initial_thumbnail_manifest: samples only above the threshold.
_initial_thumbnail_manifest_Above(duration_ms, r) ==
    [poster |-> Slot(IF duration_ms > 0 THEN RoundTie(duration_ms, 2, r) ELSE 0),
     samples |-> IF duration_ms > SampleThresholdMs
                 THEN <<Slot(RoundTie(2 * duration_ms, 10, r)),
                        Slot(RoundTie(8 * duration_ms, 10, r))>>
                 ELSE <<>>]

\* duration_ms: duration_s in milliseconds; r: the error sign of its double.
\* Each timestamp is round(..., 3): a whole number of milliseconds.
_initial_thumbnail_manifest(duration_ms, r) ==
    [poster |-> Slot(IF duration_ms > 0 THEN RoundTie(duration_ms, 2, r) ELSE 0),
     samples |-> IF duration_ms >= SampleThresholdMs
                 THEN <<Slot(RoundTie(2 * duration_ms, 10, r)),
                        Slot(RoundTie(8 * duration_ms, 10, r))>>
                 ELSE <<>>]

(* -------------------------------------------------------------- warnings *)
\* The warning codes in Python's string order.
WarningOrder ==
    <<"duration_unavailable", "frame_rate_unavailable", "no_audio_stream",
      "thumbnail_generation_failed">>

\* Mutant of SortedWarnings: descending order.
SortedWarnings_Descending(set) ==
    LET Ranks == {i \in 1..Len(WarningOrder) : WarningOrder[i] \in set}
        RECURSIVE Build(_)
        Build(ranks) ==
            IF ranks = {} THEN <<>>
            ELSE LET m == Min(ranks) IN Build(ranks \ {m}) \o <<WarningOrder[m]>>
    IN  Build(Ranks)

\* sorted(set)
SortedWarnings(set) ==
    LET Ranks == {i \in 1..Len(WarningOrder) : WarningOrder[i] \in set}
        RECURSIVE Build(_)
        Build(ranks) ==
            IF ranks = {} THEN <<>>
            ELSE LET m == Min(ranks) IN <<WarningOrder[m]>> \o Build(ranks \ {m})
    IN  Build(Ranks)

Elements(seq) == {seq[i] : i \in 1..Len(seq)}

(* ---------------------------------------------------------- strict schema *)
SCHEMA_VERSION == "0.1.0"
PARSER_VERSION == "heimdex.ingest/0.1.0"

\* pydantic field types (lax mode): what each accepts.
ValidStr(v) == IsStr(v)
ValidInt(v) == v.t \in {"int", "bool", "numstr"}
ValidFloat(v) == v.t \in {"float", "int", "bool", "numstr"}
ValidBool(v) == v.t = "bool" \/ (v.t = "int" /\ v.n \in {0, 1})
\* Optional[T]: None, or a value T accepts (valid: T's verdict on v).
Optional(valid, v) == v = Null \/ valid

HasFields(r, fields) == DOMAIN r = fields

HashModel(h) ==
    /\ HasFields(h, {"algo", "value"})
    /\ h.algo \in {S("sha256"), S("md5"), S("weak")}
    /\ ValidStr(h.value)

SourceModel(m) ==
    /\ HasFields(m, {"type", "uri", "filename", "size_bytes", "created_time",
                     "modified_time", "hash"})
    /\ m.type \in {S("local"), S("gdrive")}
    /\ ValidStr(m.uri)
    /\ ValidStr(m.filename)
    /\ Optional(ValidInt(m.size_bytes), m.size_bytes)
    /\ ValidStr(m.created_time)
    /\ Optional(ValidStr(m.modified_time), m.modified_time)
    /\ Optional(HashModel(m.hash), m.hash)

ValidTags(tags) == \A k \in DOMAIN tags : tags[k] = Absent \/ ValidStr(tags[k])

FormatModel(m) ==
    /\ HasFields(m, {"container", "duration_s", "bitrate_kbps", "tags"})
    /\ ValidStr(m.container)
    /\ ValidFloat(m.duration_s)
    /\ Optional(ValidInt(m.bitrate_kbps), m.bitrate_kbps)
    /\ ValidTags(m.tags)

VideoModel(m) ==
    /\ HasFields(m, {"codec", "profile", "width_px", "height_px", "pixel_aspect_ratio",
                     "frame_rate_fps", "color_space", "color_transfer", "color_primaries"})
    /\ ValidStr(m.codec)
    /\ Optional(ValidStr(m.profile), m.profile)
    /\ ValidInt(m.width_px)
    /\ ValidInt(m.height_px)
    /\ ValidFloat(m.pixel_aspect_ratio)
    /\ Optional(ValidFloat(m.frame_rate_fps), m.frame_rate_fps)
    /\ Optional(ValidStr(m.color_space), m.color_space)
    /\ Optional(ValidStr(m.color_transfer), m.color_transfer)
    /\ Optional(ValidStr(m.color_primaries), m.color_primaries)

AudioModel(m) ==
    /\ HasFields(m, {"codec", "channels", "sample_rate_hz", "bitrate_kbps"})
    /\ ValidStr(m.codec)
    /\ ValidInt(m.channels)
    /\ ValidInt(m.sample_rate_hz)
    /\ Optional(ValidInt(m.bitrate_kbps), m.bitrate_kbps)

StreamModel(m) ==
    /\ HasFields(m, {"index", "type", "codec", "avg_frame_rate", "r_frame_rate", "width_px",
                     "height_px", "channels", "sample_rate_hz", "bitrate_kbps",
                     "disposition_default", "tags"})
    /\ ValidInt(m.index)
    /\ m.type \in KnownStreamTypes \cup {"other"}
    /\ ValidStr(m.codec)
    /\ Optional(ValidStr(m.avg_frame_rate), m.avg_frame_rate)
    /\ Optional(ValidStr(m.r_frame_rate), m.r_frame_rate)
    /\ Optional(ValidInt(m.width_px), m.width_px)
    /\ Optional(ValidInt(m.height_px), m.height_px)
    /\ Optional(ValidInt(m.channels), m.channels)
    /\ Optional(ValidInt(m.sample_rate_hz), m.sample_rate_hz)
    /\ Optional(ValidInt(m.bitrate_kbps), m.bitrate_kbps)
    /\ Optional(ValidBool(m.disposition_default), m.disposition_default)
    /\ ValidTags(m.tags)

ThumbnailModel(m) ==
    /\ HasFields(m, {"timestamp_s", "path", "width_px", "height_px"})
    /\ ValidFloat(m.timestamp_s)
    /\ ValidStr(m.path)
    /\ ValidInt(m.width_px)
    /\ ValidInt(m.height_px)

ThumbnailsModel(m) ==
    /\ HasFields(m, {"poster", "samples"})
    /\ ThumbnailModel(m.poster)
    /\ \A i \in 1..Len(m.samples) : ThumbnailModel(m.samples[i])

ToolsModel(m) ==
    /\ HasFields(m, {"ffprobe", "ffmpeg", "parser"})
    /\ ValidStr(m.ffprobe)
    /\ ValidStr(m.ffmpeg)
    /\ ValidStr(m.parser)

SelectionPolicyModel(m) ==
    /\ HasFields(m, {"video", "audio"})
    /\ m.video = S("first_default_or_highest_resolution")
    /\ m.audio = S("first_default_or_highest_channels")

ProvenanceModel(m) ==
    /\ HasFields(m, {"ingested_at", "tools", "selection_policy", "hash_quality",
                     "source_etag", "drive_md5"})
    /\ ValidStr(m.ingested_at)
    /\ ToolsModel(m.tools)
    /\ SelectionPolicyModel(m.selection_policy)
    /\ m.hash_quality \in {Null, S("strong"), S("weak")}
    /\ Optional(ValidStr(m.source_etag), m.source_etag)
    /\ Optional(ValidStr(m.drive_md5), m.drive_md5)

\* Sidecar.model_validate(payload) does not raise.
Sidecar(m) ==
    /\ HasFields(m, {"schema_version", "asset_id", "source", "format", "video", "audio",
                     "streams", "thumbnails", "provenance", "warnings", "errors"})
    /\ m.schema_version = S(SCHEMA_VERSION)
    /\ ValidStr(m.asset_id)
    /\ SourceModel(m.source)
    /\ FormatModel(m.format)
    /\ Optional(VideoModel(m.video), m.video)
    /\ Optional(AudioModel(m.audio), m.audio)
    /\ \A i \in 1..Len(m.streams) : StreamModel(m.streams[i])
    /\ ThumbnailsModel(m.thumbnails)
    /\ ProvenanceModel(m.provenance)
    /\ \A i \in 1..Len(m.warnings) : m.warnings[i] \in STRING
    /\ m.errors = <<>>

\* _validate_against_schema: when the schema module cannot be imported the
\* function returns without validating; otherwise model_validate may raise.
_validate_against_schema_raises(payload, importable) == importable /\ ~Sidecar(payload)

(* ------------------------------------------------------ parse_ffprobe_json *)
\* raw["format"]: kind "none" (missing, null or empty), "dict", or "str" (a
\* non-empty value that is not a dict).
RawFormat(kind, format_name, duration, bit_rate, tags) ==
    [kind |-> kind, format_name |-> format_name, format_long_name |-> Absent,
     duration |-> duration, bit_rate |-> bit_rate, tags |-> tags]

\* raw.get("format") or {}
FormatInfo(raw) ==
    IF raw.format.kind = "dict" THEN raw.format
    ELSE RawFormat("dict", Absent, Absent, Absent, NoTags)

\* _binary_version: the first line the tool prints for -version.
_binary_version(tool) == S(tool \o " version 6.0")

_hash_dict(hash_info) ==
    IF hash_info = Null THEN Null ELSE [algo |-> S(hash_info.algo), value |-> S(hash_info.value)]

\* The document parse_ffprobe_json assembles, before its self-check.
AssembleSidecar(raw, source_ctx, ingested_at) ==
    LET format_info == FormatInfo(raw)
        format_tags == _normalise_tags(format_info.tags)
        duration == _parse_duration(Get(format_info.duration))
        parsed == _parse_streams(raw.streams)
        video == _summarise_video_stream(parsed.video_streams)
        audio == _summarise_audio_stream(parsed.audio_streams)
        created_time == _determine_created_time(
            source_ctx, format_tags, parsed.video_streams \o parsed.audio_streams, ingested_at)
        warnings == {duration[2], video[2], audio[2]} \ {""}
    IN  [schema_version |-> S(SCHEMA_VERSION),
         asset_id |-> S(source_ctx.asset_id),
         source |-> [type |-> S(source_ctx.type),
                     uri |-> S(source_ctx.uri),
                     filename |-> S(source_ctx.filename),
                     size_bytes |-> source_ctx.size_bytes,
                     created_time |-> _format_datetime(created_time),
                     modified_time |-> IF source_ctx.modified_time # NoTime
                                       THEN _format_datetime(source_ctx.modified_time)
                                       ELSE Null,
                     hash |-> _hash_dict(source_ctx.hash)],
         format |-> [container |-> Or(Get(format_info.format_name),
                                      Or(Get(format_info.format_long_name), S("unknown"))),
                     duration_s |-> F(duration[1]),
                     bitrate_kbps |-> _parse_bitrate_kbps(Get(format_info.bit_rate)),
                     tags |-> format_tags],
         video |-> video[1],
         audio |-> audio[1],
         streams |-> parsed.payload,
         thumbnails |-> _initial_thumbnail_manifest(duration[1], duration[3]),
         provenance |-> [ingested_at |-> _format_datetime(ingested_at),
                         tools |-> [ffprobe |-> _binary_version("ffprobe"),
                                    ffmpeg |-> _binary_version("ffmpeg"),
                                    parser |-> S(PARSER_VERSION)],
                         selection_policy |->
                             [video |-> S("first_default_or_highest_resolution"),
                              audio |-> S("first_default_or_highest_channels")],
                         hash_quality |-> source_ctx.hash_quality,
                         source_etag |-> source_ctx.source_etag,
                         drive_md5 |-> source_ctx.drive_md5],
         warnings |-> SortedWarnings(warnings),
         errors |-> <<>>]

\* An exception leaves parse_ffprobe_json before the document is assembled.
AssembleRaises(raw) ==
    \/ raw.format.kind = "str"
    \/ _normalise_tags_raises(FormatInfo(raw).tags)
    \/ _parse_streams(raw.streams).raises
    \/ _summarise_video_stream_raises(_parse_streams(raw.streams).video_streams)

\* parse_ffprobe_json raises instead of returning.
ParseRaises(raw, source_ctx, ingested_at, importable) ==
    \/ AssembleRaises(raw)
    \/ _validate_against_schema_raises(AssembleSidecar(raw, source_ctx, ingested_at), importable)

(* ------------------------------------------------------ render_thumbnails *)
THUMB_WIDTH == 320

\* What one run of the frame-extraction tool and the decoder can do:
\*   ok              exit 0, a JPEG the decoder reads
\*   decode_fail     exit 0, the decoder returns no image (RuntimeError)
\*   tool_fail       CalledProcessError (non-zero exit, killed by a signal),
\*                   after the tool wrote part of the file
\*   missing_binary  FileNotFoundError, nothing written
\*   os_error        another OSError from starting the process, nothing written
ExtractOutcomes == {"ok", "decode_fail", "tool_fail", "missing_binary", "os_error"}

\* Heights the decoder may report for a frame scaled to THUMB_WIDTH.
DecodedHeights == {180, 240}

\* A file under <out_dir>/thumbs/<asset_id>/.
PosterFile(asset_id) == [asset |-> asset_id, kind |-> "poster", cs |-> 0]

\* Timestamps (ms) ending in 5 whose product with 100.0 is not the tie x.5 in
\* doubles but the double above it, or the double below it (0.545 * 100 is
\* 54.50000000000001, 0.575 * 100 is 57.49999999999999); for the other
\* timestamps the inputs hold the product is exact or off the tie.
ProductAboveTie == {545}
ProductBelowTie == {575}

\* int(round(max(timestamp_s, 0.0) * 100)): round() takes an exact tie to the
\* even neighbour.
_timestamp_to_centiseconds(timestamp_ms) ==
    LET clamped == IF timestamp_ms > 0 THEN timestamp_ms ELSE 0
    IN  IF clamped \in ProductAboveTie THEN (clamped \div 10) + 1
        ELSE IF clamped \in ProductBelowTie THEN clamped \div 10
        ELSE RoundDiv(clamped, 10)

\* t<centiseconds, 4 digits>.jpg
SampleFile(asset_id, timestamp_ms) ==
    [asset |-> asset_id, kind |-> "sample", cs |-> _timestamp_to_centiseconds(timestamp_ms)]

\* The files on disk once the tool has run (or failed to start).
AfterTool(files, output_path, outcome) ==
    IF outcome \in {"ok", "decode_fail", "tool_fail"} THEN files \cup {output_path} ELSE files

\* [status |-> "dims" (success), "none" (returns None) or "raise", files |-> disk after]
_extract_and_measure(files, output_path, outcome) ==
    CASE outcome \in {"tool_fail", "missing_binary"} ->
            [status |-> "none", files |-> AfterTool(files, output_path, outcome) \ {output_path}]
      [] outcome = "decode_fail" ->
            [status |-> "none", files |-> AfterTool(files, output_path, outcome) \ {output_path}]
      [] outcome = "ok" ->
            [status |-> "dims", files |-> AfterTool(files, output_path, outcome)]
      [] OTHER ->
            [status |-> "raise", files |-> AfterTool(files, output_path, outcome)]

\* Mutant of PosterAfter: a failed poster is moved to 0.0.
PosterAfter_Retimed(poster_info, asset_id, status, height) ==
    IF status = "dims"
    THEN [poster_info EXCEPT !.path = PathStr(PosterFile(asset_id)),
                             !.width_px = I(THUMB_WIDTH), !.height_px = I(height)]
    ELSE [poster_info EXCEPT !.timestamp_s = F(0), !.path = S(""),
                             !.width_px = I(0), !.height_px = I(0)]

\* poster_info after its extraction.
PosterAfter(poster_info, asset_id, status, height) ==
    IF status = "dims"
    THEN [poster_info EXCEPT !.path = PathStr(PosterFile(asset_id)),
                             !.width_px = I(THUMB_WIDTH), !.height_px = I(height)]
    ELSE [poster_info EXCEPT !.path = S(""), !.width_px = I(0), !.height_px = I(0)]

\* A sample after its successful extraction.
SampleAfter(sample, asset_id, height) ==
    [sample EXCEPT !.path = PathStr(SampleFile(asset_id, sample.timestamp_s.n)),
                   !.width_px = I(THUMB_WIDTH), !.height_px = I(height)]

\* Mutant of Generated: a failed sample is appended as well.
Generated_KeepsFailed(generated, status, done) == Append(generated, done)

\* generated_samples after one sample: only a rendered sample is appended.
Generated(generated, status, done) ==
    IF status = "dims" THEN Append(generated, done) ELSE generated

RECURSIVE RenderSamples(_, _, _, _, _)
\* The loop over samples_info from position i in state acc =
\* [files, samples_info (mutated in place), generated, failed, raised].
RenderSamples(acc, i, asset_id, outcomes, height) ==
    IF i > Len(acc.samples_info) \/ acc.raised THEN acc
    ELSE LET sample == acc.samples_info[i]
             got == _extract_and_measure(acc.files,
                        SampleFile(asset_id, sample.timestamp_s.n), outcomes[i + 1])
             done == SampleAfter(sample, asset_id, height)
         IN  RenderSamples(
                 CASE got.status = "raise" -> [acc EXCEPT !.files = got.files, !.raised = TRUE]
                   [] got.status = "dims" ->
                        [acc EXCEPT !.files = got.files,
                                    !.samples_info = [acc.samples_info EXCEPT ![i] = done],
                                    !.generated = Generated(acc.generated, got.status, done)]
                   [] OTHER -> [acc EXCEPT !.files = got.files, !.failed = TRUE,
                                           !.generated =
                                               Generated(acc.generated, got.status, done)],
                 i + 1, asset_id, outcomes, height)

\* render_thumbnails(video_path, sidecar, out_dir) on a disk holding files, the
\* tool behaving as outcomes[1] for the poster and outcomes[i + 1] for sample i:
\* [raised, sidecar (as the call leaves the dict it was given), files].
render_thumbnails(sidecar, files, outcomes, height) ==
    IF ~Truthy(sidecar.asset_id) THEN [raised |-> TRUE, sidecar |-> sidecar, files |-> files]
    ELSE
    LET manifest == sidecar.thumbnails
        asset_id == sidecar.asset_id.s
        poster == _extract_and_measure(files, PosterFile(asset_id), outcomes[1])
        poster_info == PosterAfter(manifest.poster, asset_id, poster.status, height)
        loop == RenderSamples(
                    [files |-> poster.files, samples_info |-> manifest.samples,
                     generated |-> <<>>, failed |-> poster.status = "none", raised |-> FALSE],
                    1, asset_id, outcomes, height)
        warnings == Elements(sidecar.warnings) \cup
                    (IF loop.failed THEN {"thumbnail_generation_failed"} ELSE {})
    IN  IF poster.status = "raise"
        THEN [raised |-> TRUE, sidecar |-> sidecar, files |-> poster.files]
        ELSE IF loop.raised
        THEN [raised |-> TRUE,
              sidecar |-> [sidecar EXCEPT !.thumbnails =
                              [poster |-> poster_info, samples |-> loop.samples_info]],
              files |-> loop.files]
        ELSE [raised |-> FALSE,
              sidecar |-> [sidecar EXCEPT !.thumbnails =
                              [poster |-> poster_info, samples |-> loop.generated],
                                          !.warnings = SortedWarnings(warnings)],
              files |-> loop.files]

(* ---------------------------------------------------------------- inputs *)
SeqsUpTo(set, n) == UNION {[1..k -> set] : k \in 0..n}

Disp(default) == V("disp", default, 0, "")
DispNoDefault == V("disp", 0, 0, "nodefault")

VideoStream(codec, disp, w, h, tags) ==
    RawStream(Absent, S("video"), S(codec), Rat(30000, 1001), Rat(30, 1), w, h, Absent, Absent,
              NS(1200000), disp, tags, Rat(1, 1), S("High"))

AudioStream(codec, disp, ch, sr, tags) ==
    RawStream(Absent, S("audio"), S(codec), S("0/0"), S("0/0"), Absent, Absent, ch, sr,
              NS(128000), disp, tags, Absent, Absent)

DataStream(tags) ==
    RawStream(Absent, S("data"), Absent, S("0/0"), S("0/0"), Absent, Absent, Absent, Absent,
              Absent, Absent, tags, Absent, Absent)

\* Tag maps carrying creation dates (instants in half seconds).
Tags(k, v) == TagDict([NoTagValues EXCEPT ![k] = v])
TagsEarly == Tags("creation_time", DateStr("iso_z", 1, 0))
TagsMid == Tags("creation_time", DateStr("iso_z", 4, 0))
TagsOffset == Tags("com.apple.quicktime.creationdate", DateStr("iso_offset", 10, 4))
TagsTwoKeys ==
    TagDict([NoTagValues EXCEPT !["creation_time"] = DateStr("space_naive", 8, 0),
                                !["date"] = DateStr("iso_naive", 3, 0)])
TagsUnparseable == Tags("date", DateStr("exif", 2, 0))
TagsEmpty == Tags("creation_time", S(""))
TagsOddValues ==
    TagDict([NoTagValues EXCEPT !["title"] = I(7), !["date"] = Obj, !["creation_time"] = Null])

\* Streams that exercise selection.
SelectStreams ==
    {VideoStream("h264", Disp(1), I(640), I(360), NoTags),
     VideoStream("hevc", Disp(1), NS(1920), I(1080), NoTags),
     VideoStream("vp9", Disp(0), I(640), I(360), NoTags),
     VideoStream("av1", Absent, I(360), I(640), NoTags),
     VideoStream("prores", DispNoDefault, NS(1920), I(1080), NoTags),
     [VideoStream("mjpeg", Absent, Absent, I(2160), NoTags) EXCEPT !.codec_type = S("VIDEO")],
     AudioStream("aac", Disp(1), I(2), NS(44100), NoTags),
     AudioStream("mp3", Absent, I(2), NS(48000), NoTags),
     AudioStream("ac3", Disp(0), I(6), NS(44100), NoTags),
     AudioStream("opus", Absent, Absent, NS(48000), NoTags),
     DataStream(NoTags),
     [DataStream(NoTags) EXCEPT !.codec_type = I(1)]}

\* Streams with a malformed member, and a well-formed one.
MalformedStreams ==
    {VideoStream("h264", Disp(0), I(640), I(360), NoTags),
     [AudioStream("aac", DispNoDefault, I(1), S("N/A"), NoTags) EXCEPT !.codec_name = I(7)],
     [AudioStream("aac", S("x"), S("two"), Absent, NoTags) EXCEPT !.codec_name = S("")],
     VideoStream("hevc", Absent, I(640), I(360), BadTags),
     [VideoStream("hevc", Absent, I(640), I(360), NoTags) EXCEPT !.avg_frame_rate = Obj],
     [VideoStream("hevc", Disp(1), I(64), I(36), NoTags) EXCEPT !.sample_aspect_ratio = Obj],
     [VideoStream("hevc", Disp(1), I(64), I(36), NoTags) EXCEPT !.profile = I(100)]}

\* Streams that exercise the creation-time scan.
CreatedStreams ==
    {VideoStream("h264", Absent, I(640), I(360), NoTags),
     VideoStream("h264", Absent, I(640), I(360), TagsMid),
     VideoStream("h264", Absent, I(640), I(360), TagsTwoKeys),
     AudioStream("aac", Absent, I(2), NS(48000), TagsOffset),
     DataStream(TagsEarly)}

\* How the "index" members of a document's streams are set: the position, the
\* reverse of it, missing, or malformed in the first stream.
IndexPatterns == {"position", "reversed", "missing", "null", "text"}

Indexed(streams, pattern) ==
    [i \in 1..Len(streams) |->
        [streams[i] EXCEPT !.index =
            CASE pattern = "position" -> I(i - 1)
              [] pattern = "reversed" -> I(Len(streams) - i)
              [] pattern = "missing" -> Absent
              [] pattern = "null" -> IF i = 1 THEN Null ELSE I(i - 1)
              [] OTHER -> IF i = 1 THEN S("x") ELSE I(i - 1)]]

GoodFormat(duration, tags) == RawFormat("dict", S("mov,mp4"), duration, NS(1000000), tags)

MalformedFormats ==
    {GoodFormat(NS(2000), NoTags),
     GoodFormat(S("N/A"), BadTags),
     [GoodFormat(Absent, NoTags) EXCEPT !.format_name = I(3)],
     RawFormat("none", Absent, Absent, Absent, NoTags),
     RawFormat("str", Absent, Absent, Absent, NoTags)}

CreatedFormatTags ==
    {NoTags, TagsMid, TagsOffset, TagsTwoKeys, TagsUnparseable, TagsEmpty, TagsOddValues}

BaseContext(created_time, modified_time) ==
    [type |-> "local", uri |-> "file:///sample.mkv", filename |-> "sample.mkv",
     size_bytes |-> I(2048), asset_id |-> "sha256:test",
     created_time |-> created_time, modified_time |-> modified_time,
     hash |-> [algo |-> "sha256", value |-> "test"], hash_quality |-> S("strong"),
     source_etag |-> Null, drive_md5 |-> Null]

\* Instants a SourceContext may carry as created_time and modified_time.
CreatedTimes == {NoTime, 7, 2}
ModifiedTimes == {NoTime, 9}

(* --------------------------------------------------------- asset identity *)
\* Strings are sequences of one-character strings, so that f-strings and
\* prefixes are concatenations; a hash is collision-free: its digest is its
\* input behind the name of the algorithm.
NoThreshold == 0 - 1
NoSize == 0 - 1

\* A datetime: wall clock and UTC offset in half seconds, aware or naive.
Mtime(wall, off, aware) == [wall |-> wall, off |-> off, aware |-> aware]
NoMtime == Mtime(0 - 1, 0, FALSE)

DigitChar(d) ==
    CASE d = 0 -> "0" [] d = 1 -> "1" [] d = 2 -> "2" [] d = 3 -> "3" [] d = 4 -> "4"
      [] d = 5 -> "5" [] d = 6 -> "6" [] d = 7 -> "7" [] d = 8 -> "8" [] OTHER -> "9"

RECURSIVE Str(_)
\* str(n) of an int n >= 0.
Str(n) == IF n < 10 THEN <<DigitChar(n)>> ELSE Str(n \div 10) \o <<DigitChar(n % 10)>>

\* strftime("%Y-%m-%dT%H:%M:%SZ") of the instant second seconds after the epoch
\* (second < 60).
Strftime(second) ==
    <<"1", "9", "7", "0", "-", "0", "1", "-", "0", "1", "T", "0", "0", ":", "0", "0", ":">>
        \o <<DigitChar(second \div 10), DigitChar(second % 10), "Z">>

\* Mutant of UtcSecond: the sub-second part is kept.
UtcSecond_SubSecond(modified_time) ==
    IF modified_time.aware THEN modified_time.wall - modified_time.off ELSE modified_time.wall

\* The UTC second of a datetime; a naive one is taken as UTC.
UtcSecond(modified_time) ==
    ((IF modified_time.aware THEN modified_time.wall - modified_time.off
      ELSE modified_time.wall)) \div HalfSecondsPerSecond

sha256(content) == <<"sha256">> \o content
md5(payload) == <<"md5">> \o payload

\* compute_sha256: the digest of the bytes of the file, read chunk by chunk.
compute_sha256(file) == sha256(file.content)

\* Mutant of WeakPayload: the size is left out.
WeakPayload_NoSize(filename, size_bytes, modified_time) ==
    filename \o <<"|">> \o <<"|">> \o
        (IF modified_time # NoMtime THEN Strftime(UtcSecond(modified_time))
         ELSE <<"m", "i", "s", "s", "i", "n", "g">>)

\* The string compute_weak_signature hashes.
WeakPayload(filename, size_bytes, modified_time) ==
    LET size_component ==
            IF size_bytes # NoSize THEN Str(size_bytes)
            ELSE <<"u", "n", "k", "n", "o", "w", "n">>
        modified_component ==
            IF modified_time # NoMtime THEN Strftime(UtcSecond(modified_time))
            ELSE <<"m", "i", "s", "s", "i", "n", "g">>
    IN  filename \o <<"|">> \o size_component \o <<"|">> \o modified_component

compute_weak_signature(filename, size_bytes, modified_time) ==
    md5(WeakPayload(filename, size_bytes, modified_time))

\* A file: its name, its bytes, its st_mtime in half seconds.
File(name, content, mtime) == [present |-> TRUE, name |-> name, content |-> content, mtime |-> mtime]
NoFile == [present |-> FALSE, name |-> <<>>, content |-> <<>>, mtime |-> 0]

\* Mutant of do_strong: a file of exactly the threshold is hashed weakly.
do_strong_Exclusive(size_bytes, max_bytes_for_strong_hash) ==
    max_bytes_for_strong_hash = NoThreshold \/ size_bytes < max_bytes_for_strong_hash

\* do_strong of derive_local_asset_identity.
do_strong(size_bytes, max_bytes_for_strong_hash) ==
    max_bytes_for_strong_hash = NoThreshold \/ size_bytes <= max_bytes_for_strong_hash

\* derive_local_asset_identity on a file that exists.
derive_local_asset_identity(file, max_bytes_for_strong_hash) ==
    LET size_bytes == Len(file.content)
        modified_time == Mtime(file.mtime, 0, TRUE)
        sha == compute_sha256(file)
        weak == compute_weak_signature(file.name, size_bytes, modified_time)
    IN  IF do_strong(size_bytes, max_bytes_for_strong_hash)
        THEN [asset_id |-> <<"s", "h", "a", "2", "5", "6", ":">> \o sha,
              hash |-> [algo |-> "sha256", value |-> sha], hash_quality |-> "strong"]
        ELSE [asset_id |-> <<"w", "e", "a", "k", ":">> \o weak,
              hash |-> [algo |-> "weak", value |-> weak], hash_quality |-> "weak"]

\* One call on the identity module: what it was given and what it gave.
Call(kind, filename, size_bytes, modified_time, content, threshold, result) ==
    [call |-> kind, filename |-> filename, size_bytes |-> size_bytes,
     modified_time |-> modified_time, content |-> content, threshold |-> threshold,
     asset_id |-> result.asset_id, hash |-> result.hash, hash_quality |-> result.hash_quality]

NoResult == [asset_id |-> <<>>, hash |-> [algo |-> "", value |-> <<>>], hash_quality |-> ""]
NoIdentity == Call("none", <<>>, NoSize, NoMtime, <<>>, NoThreshold, NoResult)

\* Files of two names (one holding "|"), three contents (two of one size) and
\* three modification times (two within one second).
FileNames == {<<"a">>, <<"a", "|", "1">>}
FileContents == {<<"x">>, <<"y">>, <<"x", "y">>}
FileMtimes == {0, 1, 3}
LocalFiles == {File(n, c, t) : n \in FileNames, c \in FileContents, t \in FileMtimes}
Thresholds == {NoThreshold, 0, 1}

\* What compute_weak_signature may be given directly.
SizeInputs == {NoSize, 1, 2}
MtimeInputs ==
    {NoMtime, Mtime(0, 0, FALSE), Mtime(1, 0, FALSE), Mtime(3, 0, TRUE),
     Mtime(HalfSecondsPerSecond + 1, HalfSecondsPerSecond, TRUE)}

\* The media file of the ingest, at the path the pipeline is given.
SourceFile == File(<<"a">>, <<"x", "y">>, 1)

(* ------------------------------------------------------------------ jobs *)
\* Organizations, and the assets table: asset_id -> org_id.
Orgs == {"org-a", "org-b"}

Assets == {"asset-a", "asset-b"}

AssetOrg(asset_id) == IF asset_id = "asset-a" THEN "org-a" ELSE "org-b"

\* request.headers.get("Idempotency-Key"): None without the header, else its
\* text, which may be empty.
IdempotencyKeys == {Null, S(""), S("thumb-job")}

\* weak_threshold_bytes of the request body.
WeakThresholds == {Null, I(1)}

JobType == {"thumbnails", "sidecar"}

\* A row of the jobs table.
Job(job_id, job_type, org_id, asset_id, status, payload, idempotency_key) ==
    [job_id |-> job_id, job_type |-> job_type, org_id |-> org_id, asset_id |-> asset_id,
     status |-> status, payload |-> payload, idempotency_key |-> idempotency_key,
     result |-> Null, error |-> Null, started_at |-> 0, finished_at |-> 0]

\* The payload dict a route builds; only the thumbnails route has a policy
\* key (None when the body names no policy).
Payload(job_type, org_id, asset_id, weak_threshold_bytes) ==
    [org_id |-> org_id, asset_id |-> asset_id, source_uri |-> "file:///" \o asset_id,
     weak_threshold_bytes |-> weak_threshold_bytes,
     policy |-> IF job_type = "thumbnails" THEN Null ELSE Absent]

\* What the client gets: status code, error detail, job_id (0: none).
Response(code, detail, job_id) == [code |-> code, detail |-> detail, job_id |-> job_id]

NoResponse == Response(0, "", 0)

_verify_org(org_id, context) == org_id = context

\* get_asset_snapshot finds the asset within the org.
get_asset_snapshot(org_id, asset_id) == AssetOrg(asset_id) = org_id

\* select(Job).where(Job.org_id == org_id, Job.idempotency_key == key)
Existing(table, org_id, idempotency_key) ==
    {i \in DOMAIN table : /\ table[i].org_id = org_id
                          /\ table[i].idempotency_key = idempotency_key}

\* What _upsert_job does: the exception it raises ("" for none), the table it
\* leaves and the job_id it returns.
Upsert(raised, table, job_id) == [raised |-> raised, table |-> table, job_id |-> job_id]

\* uuid4().hex is a fresh job_id: the next row number.  The commit of a row
\* whose (org_id, idempotency_key) is taken breaks uq_jobs_org_idempotency;
\* rows with a NULL key never collide.
_upsert_job(table, org_id, asset_id, job_type, payload, idempotency_key) ==
    LET existing == Existing(table, org_id, idempotency_key)
        job_id == Len(table) + 1
    IN  IF Truthy(idempotency_key) /\ existing # {} THEN
            LET found == table[CHOOSE i \in existing : TRUE]
            IN  IF found.payload # payload \/ found.job_type # job_type
                THEN Upsert("idempotency_conflict", table, 0)
                ELSE Upsert("", table, found.job_id)
        ELSE IF idempotency_key # Null /\ existing # {}
        THEN Upsert("IntegrityError", table, 0)
        ELSE Upsert("", Append(table, Job(job_id, job_type, org_id, asset_id, "queued",
                                          payload, idempotency_key)), job_id)

\* update_job_status at time at (0: a time nobody reads): result and error
\* are overwritten on every call, by None when the caller names none.
update_job_status(table, job_id, status, result, error, at) ==
    [table EXCEPT ![job_id] =
        [@ EXCEPT !.status = status, !.result = result, !.error = error,
                  !.started_at = IF status = "running" THEN at ELSE @,
                  !.finished_at = IF status \in {"succeeded", "failed"} THEN at ELSE @]]

\* run_job under the immediate backend, in one piece: the job probes and
\* renders its source and ends succeeded, or failed when that raises.
run_job(table, job_id, source_present) ==
    IF source_present
    THEN update_job_status(table, job_id, "succeeded", S("result"), Null, 0)
    ELSE update_job_status(table, job_id, "failed", Null, S("message"), 0)

\* The steps inside the try block of process_thumbnails_job and of
\* process_sidecar_job, each of which may raise.
Stages(job_type) ==
    IF job_type = "thumbnails"
    THEN <<"probe", "render", "persist_thumbnails", "asset_ready">>
    ELSE <<"probe", "export_schema", "render", "persist_thumbnails", "write_sidecar",
           "persist_sidecar", "asset_ready">>

\* The except block left with the exception on the floor.
JobAfterRaise_Unhandled(table, job_id, message, at) == table

\* except Exception: the job is marked failed with the message.
JobAfterRaise(table, job_id, message, at) ==
    update_job_status(table, job_id, "failed", Null, S(message), at)

\* The request a worker serves: where it stands, the job it runs, whether
\* this request added the row, the stage it is at, the stage that raised, the
\* statuses the row went through, and the number of the request.
Worker(at, job_id, created, stage, raised, seen, request) ==
    [pc |-> at, job_id |-> job_id, created |-> created, stage |-> stage, raised |-> raised,
     seen |-> seen, request |-> request]

NoWorker == Worker("idle", 0, FALSE, 0, "", <<>>, 0)

\* An enqueue route, whole: the org check, the asset lookup, enqueue_job with
\* _upsert_job, and the immediate backend running the job it returned.  Gives
\* the response and the jobs table left behind.
Enqueue(table, job_type, context, org_id, asset_id, weak_threshold_bytes, idempotency_key, source_present) ==
    IF ~_verify_org(org_id, context)
    THEN [response |-> Response(403, "org_scope_mismatch", 0), table |-> table]
    ELSE IF ~get_asset_snapshot(context, asset_id)
    THEN [response |-> Response(404, "asset_not_found", 0), table |-> table]
    ELSE LET job == _upsert_job(table, context, asset_id, job_type,
                                Payload(job_type, context, asset_id, weak_threshold_bytes),
                                idempotency_key)
         IN  IF job.raised = "idempotency_conflict"
             THEN [response |-> Response(409, "idempotency_conflict", 0), table |-> table]
             ELSE IF job.raised # ""
             THEN [response |-> Response(500, job.raised, 0), table |-> table]
             ELSE [response |-> Response(202, "", job.job_id),
                   table |-> run_job(job.table, job.job_id, source_present)]

(* ---------------------------------------------------------- the assets *)
\* A row of the assets table; asset_id alone is the primary key.
Asset(asset_id, org_id, source_uri, size_bytes, hash, hash_quality, modified_time, status) ==
    [asset_id |-> asset_id, org_id |-> org_id, source_uri |-> source_uri,
     size_bytes |-> size_bytes, hash |-> hash, hash_quality |-> hash_quality,
     modified_time |-> modified_time, status |-> status]

\* session.get(Asset, asset_id): the positions of the rows with this key.
AssetRows(table, asset_id) == {i \in DOMAIN table : table[i].asset_id = asset_id}

\* commit_upload on a source file that exists: the assets table it leaves.
commit_upload(table, org_id, source_uri, file, weak_threshold_bytes) ==
    LET identity == derive_local_asset_identity(file, weak_threshold_bytes)
        found == AssetRows(table, identity.asset_id)
        row == Asset(identity.asset_id, org_id, source_uri, Len(file.content),
                     identity.hash.value, identity.hash_quality, file.mtime, "ready")
    IN  IF found = {} THEN Append(table, row)
        ELSE [table EXCEPT ![CHOOSE i \in found : TRUE] =
                 [row EXCEPT !.org_id = table[CHOOSE i \in found : TRUE].org_id]]

\* What a database session (one request) is doing: the operation, where it
\* stands, its arguments, the row its lookup found (0: none), the job_id it
\* returns and the exception it raises.
Session(op, at, org_id, source_uri, job_type, idempotency_key, found, job_id, raised) ==
    [op |-> op, pc |-> at, org_id |-> org_id, source_uri |-> source_uri,
     job_type |-> job_type, idempotency_key |-> idempotency_key, found |-> found,
     job_id |-> job_id, raised |-> raised]

NoSession == Session("", "idle", "", "", "", Null, 0, 0, "")

\* Idempotency-Key headers of the concurrent requests.
SharedKeys == {S("thumb-job"), S("sidecar-job")}

\* The if-block of _upsert_job on the row its select found: the session
\* raises idempotency_conflict or returns the existing job.
UpsertFound(session, table, found) ==
    IF table[found].payload # Payload(session.job_type, session.org_id, "asset-a", Null)
       \/ table[found].job_type # session.job_type
    THEN [session EXCEPT !.pc = "raised", !.found = found, !.raised = "idempotency_conflict"]
    ELSE [session EXCEPT !.pc = "upserted", !.found = found, !.job_id = found]

\* session.add(job); session.commit(): the insert breaks uq_jobs_org_idempotency
\* when a row of this (org_id, idempotency_key) was committed meanwhile.
UpsertInsert(session, table) ==
    IF Existing(table, session.org_id, session.idempotency_key) # {}
    THEN [session |-> [session EXCEPT !.pc = "raised", !.raised = "IntegrityError"],
          table |-> table]
    ELSE [session |-> [session EXCEPT !.pc = "upserted", !.job_id = Len(table) + 1],
          table |-> Append(table,
                       Job(Len(table) + 1, session.job_type, session.org_id, "asset-a",
                           "queued",
                           Payload(session.job_type, session.org_id, "asset-a", Null),
                           session.idempotency_key))]

(* --------------------------------------------------------- tool versions *)
Tools == {"ffprobe", "ffmpeg"}

\* What invoking a tool with -version does in this process: prints its version,
\* prints nothing, exits non-zero (CalledProcessError), is not on the PATH
\* (FileNotFoundError), or cannot be executed (PermissionError, an OSError).
ToolOutcomes == {"version", "blank", "tool_fail", "missing_binary", "os_error"}

\* The body of _binary_version, every failure to invoke answered "unknown".
RunVersion_CatchesAll(cmd, outcome) ==
    IF outcome = "version" THEN [raised |-> FALSE, value |-> _binary_version(cmd)]
    ELSE [raised |-> FALSE, value |-> S("unknown")]

\* The body of _binary_version: the exception that escapes, or the value.
RunVersion(cmd, outcome) ==
    IF outcome = "os_error" THEN [raised |-> TRUE, value |-> Null]
    ELSE IF outcome = "version" THEN [raised |-> FALSE, value |-> _binary_version(cmd)]
    ELSE [raised |-> FALSE, value |-> S("unknown")]

\* An lru_cache slot that holds nothing.
NoEntry == Absent

\* A call of the cached function: where it stands, its key, its result.
Lookup(at, cmd, result) == [pc |-> at, cmd |-> cmd, result |-> result]

NoLookup == Lookup("idle", "", Null)

(* ------------------------------------------------ writing the sidecar *)
\* f"{org_id}/{asset_id}/thumbs/{name}": the path of a rendered slot as
\* _normalise_thumbnail_manifest rewrites it in place; "" stays.
StorageKey(slot) ==
    IF Truthy(slot.path) THEN [slot EXCEPT !.path.d = slot.path.d + 2] ELSE slot

\* The sidecar after _normalise_thumbnail_manifest went over its manifest.
_normalise_thumbnail_manifest(doc) ==
    [doc EXCEPT !.thumbnails.poster = StorageKey(@),
                !.thumbnails.samples = [i \in 1..Len(@) |-> StorageKey(@[i])]]

\* The callers that write the sidecar of an asset to the sidecars directory.
SidecarWriters == {"process_sidecar_job", "_cmd_sidecar"}

\* The document a writer dumps to <asset_id>.vna.json, given what
\* render_thumbnails returned.
Dumped(writer, updated) ==
    IF writer = "process_sidecar_job" THEN _normalise_thumbnail_manifest(updated) ELSE updated

(* ------------------------------------------------------- file names *)
RECURSIVE ZeroPad(_, _)
\* format(n, "04d"): zeros in front up to the width, never a digit cut.
ZeroPad(digits, width) ==
    IF Len(digits) >= width THEN digits ELSE ZeroPad(<<"0">> \o digits, width)

\* The name of a thumbnail file: "poster.jpg", f"t{centiseconds:04d}.jpg".
FileName(file) ==
    IF file.kind = "poster" THEN <<"p", "o", "s", "t", "e", "r", ".", "j", "p", "g">>
    ELSE <<"t">> \o ZeroPad(Str(file.cs), 4) \o <<".", "j", "p", "g">>

\* The names render_thumbnails gives the files of a manifest: the poster
\* first, the samples after it.
ManifestNames(asset_id, manifest) ==
    <<FileName(PosterFile(asset_id))>> \o
    [i \in 1..Len(manifest.samples) |->
        FileName(SampleFile(asset_id, manifest.samples[i].timestamp_s.n))]

\* One naming: of the sample at a timestamp, or of the files of the manifest
\* seeded for a duration.
Naming(kind, ms, names) == [kind |-> kind, ms |-> ms, names |-> names]

NoNaming == Naming("none", 0, <<>>)

(* ------------------------------------------------- concurrent renders *)
\* Asset ids as derive_local_asset_identity gives them: a prefix and a hex
\* digest, one path component each.
RenderAssets == {"sha256:ab", "weak:cd"}

\* Durations below and at the sample threshold, as ffprobe's strings.
RenderDurations == {NS(2000), NS(60000)}

\* The sidecar of an asset whose probe reports the duration.
ProbedSidecar(asset_id, duration) ==
    AssembleSidecar([format |-> GoodFormat(duration, NoTags), streams |-> <<>>],
                    [BaseContext(NoTime, 9) EXCEPT !.asset_id = asset_id], 1)

\* One call of render_thumbnails in progress: the sidecar it was given, the
\* same dict as mutated so far, the slot it is at (0: poster, i: sample i),
\* generated_samples, whether a slot failed, what the tool did slot by slot,
\* the disk it started on and the files it wrote or unlinked.
Rendering(at, given, doc, i, generated, failed, outcomes, height, before, touched) ==
    [pc |-> at, given |-> given, sidecar |-> doc, i |-> i, generated |-> generated,
     failed |-> failed, outcomes |-> outcomes, height |-> height, before |-> before,
     touched |-> touched]

NoRendering == Rendering("idle", Null, Null, 0, <<>>, FALSE, <<>>, 0, {}, {})

\* Mutant of OutputPath: thumbs_root without the asset id.
OutputPath_SharedRoot(call) ==
    IF call.i = 0 THEN PosterFile("")
    ELSE SampleFile("", call.sidecar.thumbnails.samples[call.i].timestamp_s.n)

\* thumbs_root / "poster.jpg", thumbs_root / filename of the slot the call is at.
OutputPath(call) ==
    IF call.i = 0 THEN PosterFile(call.given.asset_id.s)
    ELSE SampleFile(call.given.asset_id.s,
                    call.sidecar.thumbnails.samples[call.i].timestamp_s.n)

\* The call extracts the slot it is at, the tool doing outcome, on the disk
\* as it is now: [call, files].
ExtractSlot(call, files, outcome) ==
    LET asset_id == call.given.asset_id.s
        output_path == OutputPath(call)
        got == _extract_and_measure(files, output_path, outcome)
        manifest == call.sidecar.thumbnails
        acted == IF got.files # files \/ AfterTool({}, output_path, outcome) # {}
                 THEN {output_path} ELSE {}
        base == [call EXCEPT !.outcomes = Append(@, outcome), !.touched = @ \cup acted,
                             !.i = @ + 1]
    IN  [files |-> got.files,
         call |->
            CASE got.status = "raise" -> [base EXCEPT !.pc = "raised"]
              [] call.i = 0 ->
                    [base EXCEPT !.sidecar.thumbnails.poster =
                                     PosterAfter(manifest.poster, asset_id, got.status,
                                                 call.height),
                                 !.failed = got.status = "none"]
              [] got.status = "dims" ->
                    LET done == SampleAfter(manifest.samples[call.i], asset_id, call.height)
                    IN  [base EXCEPT !.sidecar.thumbnails.samples[call.i] = done,
                                     !.generated = Generated(@, got.status, done)]
              [] OTHER ->
                    [base EXCEPT !.failed = TRUE,
                                 !.generated = Generated(@, got.status,
                                                         manifest.samples[call.i])]]

\* The end of render_thumbnails: manifest["samples"], sidecar["warnings"].
RenderEnd(call) ==
    [call EXCEPT !.pc = "returned",
                 !.sidecar.thumbnails.samples = call.generated,
                 !.sidecar.warnings =
                     SortedWarnings(Elements(call.given.warnings) \cup
                         (IF call.failed THEN {"thumbnail_generation_failed"} ELSE {}))]

(* ----------------------------------------------------------------- state *)
VARIABLES
    schema_importable,  \* the process can import the schema module (pydantic)
    raw,         \* the raw probe document of the asset
    source_ctx,  \* the SourceContext the caller assembled
    now,         \* the last wall-clock reading (half seconds)
    pc,          \* where the ingest of the asset stands
    sidecar,     \* the sidecar dict in the caller's hands (mutated in place)
    parsed,      \* the document the last parse_ffprobe_json returned
    prev,        \* the document the parse_ffprobe_json before it returned
    files,       \* the thumbnail files on disk
    tool,        \* what the extraction tool and the decoder did in the last render
    disk,        \* the media files: path (a position) -> file or NoFile
    identity,    \* the last call on the identity module
    prev_identity, \* the call before it
    jobs,        \* the jobs table, in the order the rows were added
    response,    \* the response to the last enqueue request
    worker,      \* the enqueue request being served step by step
    tool_env,    \* cmd -> what invoking the tool for its version does
    version_cache,   \* the lru_cache of _binary_version: cmd -> value or NoEntry
    lookup,      \* caller -> its call of _binary_version
    tool_runs,   \* cmd -> invocations made for its version
    version_results, \* cmd -> what the calls for it ended with
    renders,     \* asset id -> the render_thumbnails call on its sidecar
    naming,      \* the last naming of thumbnail files
    sidecar_file, \* the document in <asset_id>.vna.json of the sidecars directory
    assets,      \* the assets table, in the order the rows were added
    sessions     \* database session -> the _upsert_job it is running

idvars == <<disk, identity, prev_identity>>

jobvars == <<jobs, response, worker>>

vervars == <<tool_env, version_cache, lookup, tool_runs, version_results>>

\* The variables of the later sections.
storevars == <<sidecar_file, assets, sessions>>

auxvars == <<vervars, renders, naming, storevars>>

vars == <<schema_importable, raw, source_ctx, now, pc, sidecar, parsed, prev, files, tool,
          disk, identity, prev_identity, jobs, response, worker, auxvars>>

pipevars == <<schema_importable, raw, source_ctx, now, pc, sidecar, parsed, prev, files, tool>>

\* The path of the media file the pipeline ingests.
SourcePath == 1

\* What the extraction tool can do when its input file does not exist: exit
\* non-zero, be missing itself, or fail to start.
AbsentSourceOutcomes == {"tool_fail", "missing_binary", "os_error"}

NoDoc == Null
NoTool == [outcomes |-> <<>>, height |-> 0]

\* parse_ffprobe_json returns: the clock is read, the document assembled and
\* validated.
ParseReturns ==
    /\ pc = "start"
    /\ \E t \in now..MaxClock :
        /\ ~ParseRaises(raw, source_ctx, t, schema_importable)
        /\ now' = t
        /\ sidecar' = AssembleSidecar(raw, source_ctx, t)
        /\ parsed' = AssembleSidecar(raw, source_ctx, t)
    /\ prev' = parsed
    /\ pc' = "parsed"
    /\ UNCHANGED <<schema_importable, raw, source_ctx, files, tool>>
    /\ UNCHANGED idvars
    /\ UNCHANGED <<jobvars, auxvars>>

\* parse_ffprobe_json raises.
ParseFails ==
    /\ pc = "start"
    /\ \E t \in now..MaxClock :
        /\ ParseRaises(raw, source_ctx, t, schema_importable)
        /\ now' = t
    /\ pc' = "parse_raised"
    /\ UNCHANGED <<schema_importable, raw, source_ctx, sidecar, parsed, prev, files, tool>>
    /\ UNCHANGED idvars
    /\ UNCHANGED <<jobvars, auxvars>>

\* render_thumbnails on the parsed sidecar.
Render ==
    /\ pc = "parsed"
    /\ \E outcomes \in [1..(1 + Len(sidecar.thumbnails.samples)) -> ExtractOutcomes],
          height \in DecodedHeights :
        LET r == render_thumbnails(sidecar, files, outcomes, height)
        IN  /\ disk[SourcePath].present
                \/ \A i \in DOMAIN outcomes : outcomes[i] \in AbsentSourceOutcomes
            /\ sidecar' = r.sidecar
            /\ files' = r.files
            /\ pc' = IF r.raised THEN "render_raised" ELSE "rendered"
            /\ tool' = [outcomes |-> outcomes, height |-> height]
    /\ UNCHANGED <<schema_importable, raw, source_ctx, now, parsed, prev>>
    /\ UNCHANGED idvars
    /\ UNCHANGED <<jobvars, auxvars>>

\* The caller ingests the same asset again (a retry, a second job).
Reingest ==
    /\ pc \in {"parse_raised", "rendered", "render_raised"}
    /\ pc' = "start"
    /\ sidecar' = NoDoc
    /\ tool' = NoTool
    /\ UNCHANGED <<schema_importable, raw, source_ctx, now, parsed, prev, files>>
    /\ UNCHANGED idvars
    /\ UNCHANGED <<jobvars, auxvars>>

\* derive_local_asset_identity(path) returns for a file that exists.
Derive ==
    /\ \E path \in DOMAIN disk, threshold \in Thresholds :
        LET file == disk[path]
        IN  /\ file.present
            /\ identity' = Call("derive", file.name, Len(file.content),
                                 Mtime(file.mtime, 0, TRUE), file.content, threshold,
                                 derive_local_asset_identity(file, threshold))
    /\ prev_identity' = identity
    /\ UNCHANGED <<pipevars, disk>>
    /\ UNCHANGED <<jobvars, auxvars>>

\* derive_local_asset_identity(path): path.stat() raises FileNotFoundError.
DeriveFails ==
    /\ \E path \in DOMAIN disk : ~disk[path].present
    /\ identity' = Call("raised", <<>>, NoSize, NoMtime, <<>>, NoThreshold, NoResult)
    /\ prev_identity' = identity
    /\ UNCHANGED <<pipevars, disk>>
    /\ UNCHANGED <<jobvars, auxvars>>

\* compute_weak_signature(filename, size_bytes, modified_time), called directly.
Sign ==
    /\ \E filename \in FileNames, size_bytes \in SizeInputs, modified_time \in MtimeInputs :
        identity' = Call("sign", filename, size_bytes, modified_time, <<>>, NoThreshold,
                         [NoResult EXCEPT !.hash.value =
                             compute_weak_signature(filename, size_bytes, modified_time)])
    /\ prev_identity' = identity
    /\ UNCHANGED <<pipevars, disk>>
    /\ UNCHANGED <<jobvars, auxvars>>

(* ------------------------------------------------- the normalizer alone *)
\* No call on the identity module yet; the media file is where it should be.
InitSource ==
    /\ disk = <<SourceFile>>
    /\ identity = NoIdentity
    /\ prev_identity = NoIdentity

\* No version lookup under way, both tools answering.
NoLookups ==
    /\ version_cache = [cmd \in Tools |-> NoEntry]
    /\ lookup = [caller \in 1..MaxCallers |-> NoLookup]
    /\ tool_runs = [cmd \in Tools |-> 0]
    /\ version_results = [cmd \in Tools |-> {}]

NoRenders == renders = [asset_id \in RenderAssets |-> NoRendering]

\* Nothing written, no asset committed, no session open.
NoStores ==
    /\ sidecar_file = NoDoc
    /\ assets = <<>>
    /\ sessions = <<>>

InitQuiet ==
    /\ tool_env = [cmd \in Tools |-> "version"]
    /\ NoLookups
    /\ NoRenders
    /\ naming = NoNaming
    /\ NoStores

InitCore ==
    /\ schema_importable \in BOOLEAN
    /\ pc = "start"
    /\ sidecar = NoDoc
    /\ parsed = NoDoc
    /\ prev = NoDoc
    /\ files = {}
    /\ tool = NoTool
    /\ jobs = <<>>
    /\ response = NoResponse
    /\ worker = NoWorker

InitCommon ==
    /\ InitQuiet
    /\ InitCore

\* A thread calls _binary_version(cmd): a cache hit returns the cached value,
\* a miss goes on to invoke the tool.
LookupCalls ==
    /\ \E caller \in 1..MaxCallers, cmd \in Tools :
        /\ lookup[caller].pc = "idle"
        /\ IF version_cache[cmd] # NoEntry
           THEN /\ lookup' = [lookup EXCEPT ![caller] =
                                  Lookup("returned", cmd, version_cache[cmd])]
                /\ version_results' = [version_results EXCEPT ![cmd] =
                                           @ \cup {version_cache[cmd]}]
           ELSE /\ lookup' = [lookup EXCEPT ![caller] = Lookup("invoking", cmd, Null)]
                /\ version_results' = version_results
    /\ UNCHANGED <<pipevars, idvars, jobvars, renders, naming, storevars, tool_env, version_cache, tool_runs>>

\* The cache lock released, the call runs the tool: an exception that
\* escapes ends the call with nothing cached.
LookupInvokes ==
    /\ \E caller \in 1..MaxCallers :
        LET cmd == lookup[caller].cmd
            ran == RunVersion(cmd, tool_env[cmd])
        IN  /\ lookup[caller].pc = "invoking"
            /\ tool_runs[cmd] < MaxToolRuns
            /\ tool_runs' = [tool_runs EXCEPT ![cmd] = @ + 1]
            /\ IF ran.raised
               THEN /\ lookup' = [lookup EXCEPT ![caller] = Lookup("raised", cmd, Null)]
                    /\ version_results' = [version_results EXCEPT ![cmd] =
                                               @ \cup {S("raised")}]
               ELSE /\ lookup' = [lookup EXCEPT ![caller] =
                                      Lookup("storing", cmd, ran.value)]
                    /\ version_results' = version_results
    /\ UNCHANGED <<pipevars, idvars, jobvars, renders, naming, storevars, tool_env, version_cache>>

\* Back under the lock: the value is stored unless another call stored the
\* key meanwhile, and the call returns the value it computed itself.
LookupStores ==
    /\ \E caller \in 1..MaxCallers :
        LET cmd == lookup[caller].cmd
        IN  /\ lookup[caller].pc = "storing"
            /\ version_cache' = IF version_cache[cmd] = NoEntry
                                THEN [version_cache EXCEPT ![cmd] = lookup[caller].result]
                                ELSE version_cache
            /\ lookup' = [lookup EXCEPT ![caller].pc = "returned"]
            /\ version_results' = [version_results EXCEPT ![cmd] =
                                       @ \cup {lookup[caller].result}]
    /\ UNCHANGED <<pipevars, idvars, jobvars, renders, naming, storevars, tool_env, tool_runs>>

\* The caller is free for its next call.
LookupEnds ==
    /\ \E caller \in 1..MaxCallers :
        /\ lookup[caller].pc \in {"returned", "raised"}
        /\ lookup' = [lookup EXCEPT ![caller] = NoLookup]
    /\ UNCHANGED <<pipevars, idvars, jobvars, renders, naming, storevars, tool_env, version_cache, tool_runs,
                   version_results>>

\* POST /assets/{asset_id}/thumbnails.
enqueue_thumbnails ==
    /\ \E context \in Orgs, org_id \in Orgs, asset_id \in Assets,
          weak_threshold_bytes \in WeakThresholds, idempotency_key \in IdempotencyKeys :
        LET done == Enqueue(jobs, "thumbnails", context, org_id, asset_id,
                            weak_threshold_bytes, idempotency_key, disk[SourcePath].present)
        IN  /\ Len(done.table) <= MaxJobs
            /\ response' = done.response
            /\ jobs' = done.table
    /\ UNCHANGED <<auxvars, pipevars, idvars, worker>>

\* POST /assets/{asset_id}/sidecar.
enqueue_sidecar ==
    /\ \E context \in Orgs, org_id \in Orgs, asset_id \in Assets,
          weak_threshold_bytes \in WeakThresholds, idempotency_key \in IdempotencyKeys :
        LET done == Enqueue(jobs, "sidecar", context, org_id, asset_id,
                            weak_threshold_bytes, idempotency_key, disk[SourcePath].present)
        IN  /\ Len(done.table) <= MaxJobs
            /\ response' = done.response
            /\ jobs' = done.table
    /\ UNCHANGED <<auxvars, pipevars, idvars, worker>>

\* An enqueue request reaches enqueue_job: _upsert_job hands back a job, or
\* raises and the request is over.
EnqueueJob ==
    /\ worker.pc = "idle"
    /\ worker.request < MaxRequests
    /\ \E job_type \in JobType, idempotency_key \in IdempotencyKeys :
        LET org_id == "org-a"
            asset_id == "asset-a"
            job == _upsert_job(jobs, org_id, asset_id, job_type,
                               Payload(job_type, org_id, asset_id, Null), idempotency_key)
        IN  /\ Len(job.table) <= MaxJobs
            /\ IF job.raised # ""
               THEN /\ response' = Response(IF job.raised = "idempotency_conflict"
                                            THEN 409 ELSE 500, job.raised, 0)
                    /\ jobs' = jobs
                    /\ worker' = [NoWorker EXCEPT !.request = worker.request + 1]
               ELSE /\ response' = NoResponse
                    /\ jobs' = job.table
                    /\ worker' = Worker("enqueued", job.job_id, Len(job.table) > Len(jobs), 0,
                                        "", <<job.table[job.job_id].status>>,
                                        worker.request + 1)
    /\ UNCHANGED <<auxvars, pipevars, idvars>>

\* process_*_job: update_job_status(job_id, status=JobStatus.running).
JobStarts ==
    /\ worker.pc = "enqueued"
    /\ jobs' = update_job_status(jobs, worker.job_id, "running", Null, Null, worker.request)
    /\ worker' = [worker EXCEPT !.pc = "running", !.stage = 1,
                                !.seen = Append(@, "running")]
    /\ UNCHANGED <<auxvars, pipevars, idvars, response>>

\* The stage the job is at returns.
StageCompletes ==
    /\ worker.pc = "running"
    /\ worker.stage <= Len(Stages(jobs[worker.job_id].job_type))
    /\ worker' = [worker EXCEPT !.stage = @ + 1]
    /\ UNCHANGED <<auxvars, pipevars, idvars, jobs, response>>

\* The stage the job is at raises an Exception.
StageRaises ==
    /\ worker.pc = "running"
    /\ worker.stage <= Len(Stages(jobs[worker.job_id].job_type))
    /\ LET stage == Stages(jobs[worker.job_id].job_type)[worker.stage]
           table == JobAfterRaise(jobs, worker.job_id, stage, worker.request)
       IN  /\ jobs' = table
           /\ worker' = [worker EXCEPT !.pc = "finished", !.raised = stage,
                                       !.seen = Append(@, table[worker.job_id].status)]
    /\ UNCHANGED <<auxvars, pipevars, idvars, response>>

\* Every stage returned: update_job_status(job_id, status=JobStatus.succeeded,
\* result=...).
JobSucceeds ==
    /\ worker.pc = "running"
    /\ worker.stage > Len(Stages(jobs[worker.job_id].job_type))
    /\ jobs' = update_job_status(jobs, worker.job_id, "succeeded", S("result"), Null,
                                 worker.request)
    /\ worker' = [worker EXCEPT !.pc = "finished", !.seen = Append(@, "succeeded")]
    /\ UNCHANGED <<auxvars, pipevars, idvars, response>>

\* backend.enqueue is back and enqueue_job returns the job: 202 Accepted.
EnqueueReturns ==
    /\ worker.pc = "finished"
    /\ response' = Response(202, "", worker.job_id)
    /\ worker' = [worker EXCEPT !.pc = "idle"]
    /\ UNCHANGED <<auxvars, pipevars, idvars, jobs>>

InitSelect ==
    /\ \E streams \in SeqsUpTo(SelectStreams, MaxStreams),
          pattern \in {"position", "reversed", "missing"} :
        raw = [format |-> GoodFormat(NS(2000), NoTags), streams |-> Indexed(streams, pattern)]
    /\ source_ctx = BaseContext(NoTime, 9)
    /\ now = MaxClock

InitMalformed ==
    /\ \E streams \in SeqsUpTo(MalformedStreams, MaxStreams),
          pattern \in {"position", "null", "text"}, format \in MalformedFormats :
        raw = [format |-> format, streams |-> Indexed(streams, pattern)]
    /\ source_ctx = BaseContext(NoTime, 9)
    /\ now = MaxClock

InitCreated ==
    /\ \E streams \in SeqsUpTo(CreatedStreams, MaxStreams), tags \in CreatedFormatTags :
        raw = [format |-> GoodFormat(NS(2000), tags), streams |-> Indexed(streams, "position")]
    /\ \E c \in CreatedTimes, m \in ModifiedTimes : source_ctx = BaseContext(c, m)
    /\ now = MaxClock - 1

\* format.duration as ffprobe and malformed probes give it: decimal strings in
\* milliseconds ("59.999", "61.725" and "0.003" are held by a double just
\* above, "59.9" and "60.001" just below, "0.125" exactly), JSON numbers, and values that do not
\* parse.
DurationInputs ==
    {Absent, Null, S("N/A"), S(""), S("abc"), Obj, B(TRUE), I(0), I(75), F(90500),
     NS(0), NS(0 - 5000), NSr(3, 1), NS(125), NSr(59900, 0 - 1), NSr(59999, 1), NS(60000),
     NSr(60001, 0 - 1), NSr(61725, 1), NS(120000)}

InitDuration ==
    /\ \E streams \in SeqsUpTo({VideoStream("h264", Disp(1), I(640), I(360), NoTags)}, MaxStreams),
          duration \in DurationInputs :
        raw = [format |-> GoodFormat(duration, NoTags), streams |-> Indexed(streams, "position")]
    /\ source_ctx = BaseContext(NoTime, 9)
    /\ now = MaxClock

\* Values of avg_frame_rate and r_frame_rate as ffprobe writes them: absent,
\* null, "", "N/A", "0/0", text, "a/b", "n/d" (also with d = 0) and a bare
\* numeral.  The quotients are no decimal ties, other than 1/8 which a double
\* holds exactly.
RateInputs ==
    {Absent, Null, S(""), S("N/A"), S("0/0"), S("abc"), S("a/b"),
     Rat(30000, 1001), Rat(24, 1), Rat(25, 0), Rat(0, 1), Rat(1, 8), Rat(24000, 1001),
     NS(25), NS(0)}

RateStream(avg, r) ==
    [VideoStream("h264", Disp(1), I(640), I(360), NoTags)
        EXCEPT !.avg_frame_rate = avg, !.r_frame_rate = r]

InitFrameRate ==
    /\ \E avg \in RateInputs, r \in RateInputs,
          tail \in SeqsUpTo({AudioStream("aac", Absent, I(2), NS(48000), NoTags)}, 1),
          video \in BOOLEAN :
        raw = [format |-> GoodFormat(NS(2000), NoTags),
               streams |-> Indexed((IF video THEN <<RateStream(avg, r)>> ELSE <<>>) \o tail,
                                   "position")]
    /\ source_ctx = BaseContext(NoTime, 9)
    /\ now = MaxClock

InitNormalizer ==
    /\ InitCommon
    /\ InitSource
    /\ (InitSelect \/ InitMalformed \/ InitCreated \/ InitDuration \/ InitFrameRate)

NextNormalizer == ParseReturns \/ ParseFails

SpecNormalizer == InitNormalizer /\ [][NextNormalizer]_vars

(* ----------------------------------------------------------- the pipeline *)
PipelineStreams ==
    {VideoStream("h264", Disp(1), I(640), I(360), TagsMid),
     [AudioStream("aac", Absent, I(2), NS(48000), NoTags) EXCEPT !.codec_name = I(7)]}

\* Durations in milliseconds, as ffprobe's decimal strings.
PipelineDurations == {Absent, NS(59900), NS(60000), NSr(61725, 1)}

Init ==
    /\ InitCommon
    /\ InitSource
    /\ \E streams \in SeqsUpTo(PipelineStreams, MaxStreams), duration \in PipelineDurations :
        raw = [format |-> GoodFormat(duration, NoTags), streams |-> Indexed(streams, "position")]
    /\ \E m \in ModifiedTimes : source_ctx = BaseContext(NoTime, m)
    /\ now = 1

Next == ParseReturns \/ ParseFails \/ Render \/ Reingest

Spec == Init /\ [][Next]_vars

(* ======================================================================= *)
(* Properties                                                              *)
(* ======================================================================= *)

\* The file render_thumbnails writes for slot i of the parsed manifest
\* (1: the poster, i + 1: sample i).
SlotFile(i) ==
    IF i = 1 THEN PosterFile(parsed.asset_id.s)
    ELSE SampleFile(parsed.asset_id.s, parsed.thumbnails.samples[i - 1].timestamp_s.n)

\* The slots the last render reached: all up to the first one on which the
\* extraction raised.
Attempted ==
    {i \in 1..Len(tool.outcomes) : \A j \in 1..(i - 1) : tool.outcomes[j] # "os_error"}

\* Seeded samples (positions) whose extraction and decode succeeded.
RenderedSamples == {i \in 1..Len(parsed.thumbnails.samples) : tool.outcomes[i + 1] = "ok"}

RECURSIVE Pick(_, _, _)
\* The members of seq at the positions in set, from position i on, in order.
Pick(seq, set, i) ==
    IF i > Len(seq) THEN <<>>
    ELSE (IF i \in set THEN <<seq[i]>> ELSE <<>>) \o Pick(seq, set, i + 1)

\* C1: a sidecar that parse_ffprobe_json returned and render_thumbnails then
\* enriched validates against the strict Sidecar schema, whatever each slot's
\* extraction did (success, tool failure, decode failure).
C1_RenderedSidecarValidates == pc = "rendered" => Sidecar(sidecar)

C5_NoFileAtFailedSlot ==
    pc \in {"rendered", "render_raised"} =>
        \A i \in Attempted : tool.outcomes[i] # "ok" => SlotFile(i) \notin files

(* ----------------------------------------------------- claims on the probe *)
\* Stream i of the raw document has codec_type type (in any letter case).
IsTyped(i, type) ==
    raw.streams[i].codec_type.t = "str" /\ Lower(raw.streams[i].codec_type.s) = type

Typed(type) == {i \in 1..Len(raw.streams) : IsTyped(i, type)}

\* Stream i carries disposition.default = true.
FlaggedDefault(i) ==
    /\ raw.streams[i].disposition.t = "disp"
    /\ raw.streams[i].disposition.s = ""
    /\ raw.streams[i].disposition.n # 0

\* The integer a raw member holds, 0 when it holds none.
Num(v) == IF v.t \in {"int", "numstr", "bool"} THEN v.n ELSE 0

Area(i) == Num(raw.streams[i].width) * Num(raw.streams[i].height)

First(set) == CHOOSE i \in set : \A j \in set : i <= j

\* The codec name of raw stream i, "unknown" when it has none.
CodecOf(i) ==
    IF Truthy(raw.streams[i].codec_name) THEN raw.streams[i].codec_name ELSE S("unknown")

\* C2: parse_ffprobe_json never raises for a malformed probe document.
C2_ParseNeverRaises == pc # "parse_raised"

\* C3 (as claimed): two invocations on identical inputs return identical
\* documents, whatever the wall-clock time of each.
C3_Deterministic == (pc = "parsed" /\ prev # NoDoc) => parsed = prev

\* A creation time that does not come from the clock: the SourceContext carries
\* created_time or modified_time, or a creation-date tag of the format or of a
\* video or audio stream parses.
ClockFreeCreatedTime ==
    \/ source_ctx.created_time # NoTime
    \/ source_ctx.modified_time # NoTime
    \/ TagCandidates(_normalise_tags(FormatInfo(raw).tags)) # {}
    \/ \E i \in Typed("video") \cup Typed("audio") :
          TagCandidates(_normalise_tags(raw.streams[i].tags)) # {}

\* C3 (amended): two invocations on identical inputs return documents that are
\* identical except for provenance.ingested_at, the second of each invocation,
\* and for source.created_time when no created_time, modified_time or parsed
\* tag date exists, which is then that second too.
C3_DeterministicExceptClock ==
    (pc = "parsed" /\ prev # NoDoc) =>
        /\ [parsed EXCEPT !.provenance.ingested_at = Null, !.source.created_time = Null]
           = [prev EXCEPT !.provenance.ingested_at = Null, !.source.created_time = Null]
        /\ ClockFreeCreatedTime => parsed.source.created_time = prev.source.created_time
        /\ ~ClockFreeCreatedTime =>
              /\ parsed.source.created_time = parsed.provenance.ingested_at
              /\ prev.source.created_time = prev.provenance.ingested_at
        /\ parsed.provenance.ingested_at = prev.provenance.ingested_at => parsed = prev

\* C3 witness: a second invocation in a later second than the first, on an
\* input whose creation time does not come from the clock.
C3_Witness ==
    /\ pc = "parsed"
    /\ prev # NoDoc
    /\ ClockFreeCreatedTime
    /\ parsed.provenance.ingested_at # prev.provenance.ingested_at

\* C6: the video summary is built from the first video stream flagged default
\* when there is one, whatever the resolutions; otherwise from the first video
\* stream of the largest width*height, a missing dimension counting as 0.
C6_VideoSelection ==
    (pc = "parsed" /\ Typed("video") # {}) =>
        LET videos == Typed("video")
            defaults == {i \in videos : FlaggedDefault(i)}
            largest == {i \in videos : \A j \in videos : Area(j) <= Area(i)}
            expected == IF defaults # {} THEN First(defaults) ELSE First(largest)
        IN  /\ sidecar.video # Null
            /\ sidecar.video.codec = CodecOf(expected)
            /\ sidecar.video.width_px = I(Num(raw.streams[expected].width))
            /\ sidecar.video.height_px = I(Num(raw.streams[expected].height))

\* C6 witness: a default-flagged 640x360 stream is selected although a larger
\* stream that is not flagged default comes before it.
C6_Witness ==
    /\ pc = "parsed"
    /\ \E i, j \in Typed("video") :
          /\ j < i
          /\ FlaggedDefault(i) /\ ~FlaggedDefault(j)
          /\ Area(j) > Area(i)
          /\ sidecar.video.codec = CodecOf(i)
          /\ sidecar.video.width_px = I(640)

\* (channels, sample_rate) of raw stream i.
Pair(i) == <<Num(raw.streams[i].channels), Num(raw.streams[i].sample_rate)>>

\* C7: the audio summary is built from the first audio stream flagged default
\* when there is one; otherwise from a stream whose (channels, sample_rate) is
\* the lexicographic maximum, so that more channels beat a higher sample rate.
C7_AudioSelection ==
    (pc = "parsed" /\ Typed("audio") # {}) =>
        LET audios == Typed("audio")
            defaults == {i \in audios : FlaggedDefault(i)}
            best == {i \in audios : \A j \in audios :
                        \/ Pair(j)[1] < Pair(i)[1]
                        \/ (Pair(j)[1] = Pair(i)[1] /\ Pair(j)[2] <= Pair(i)[2])}
        IN  /\ sidecar.audio # Null
            /\ defaults # {} =>
                  /\ sidecar.audio.codec = CodecOf(First(defaults))
                  /\ sidecar.audio.channels = I(Pair(First(defaults))[1])
                  /\ sidecar.audio.sample_rate_hz = I(Pair(First(defaults))[2])
            /\ defaults = {} =>
                  \E i \in best :
                      /\ sidecar.audio.codec = CodecOf(i)
                      /\ sidecar.audio.channels = I(Pair(i)[1])
                      /\ sidecar.audio.sample_rate_hz = I(Pair(i)[2])

\* C7 witness: without a default flag, a 6-channel 44.1 kHz stream is selected
\* over a 2-channel 48 kHz stream that comes first.
C7_Witness ==
    /\ pc = "parsed"
    /\ \A i \in Typed("audio") : ~FlaggedDefault(i)
    /\ \E i, j \in Typed("audio") :
          /\ j < i
          /\ Pair(i) = <<6, 44100>> /\ Pair(j) = <<2, 48000>>
          /\ sidecar.audio.channels = I(6)
          /\ sidecar.audio.sample_rate_hz = I(44100)

\* C8: the audio summary is None, and no_audio_stream is among the warnings,
\* exactly when the probe has no audio stream; the video summary is None exactly
\* when the probe has no video stream, and that adds no warning.
C8_MissingSummaries ==
    pc = "parsed" =>
        /\ sidecar.audio = Null <=> Typed("audio") = {}
        /\ "no_audio_stream" \in Elements(sidecar.warnings) <=> Typed("audio") = {}
        /\ sidecar.video = Null <=> Typed("video") = {}
        /\ Typed("video") = {} =>
              Elements(sidecar.warnings) \subseteq
                  {"no_audio_stream"} \cup
                  (IF _parse_duration(Get(FormatInfo(raw).duration))[2] = "" THEN {}
                   ELSE {"duration_unavailable"})

\* C8 witness: a probe with streams, none of them audio or video.
C8_Witness ==
    /\ pc = "parsed"
    /\ Len(raw.streams) >= 1
    /\ Typed("audio") = {} /\ Typed("video") = {}
    /\ sidecar.audio = Null /\ sidecar.video = Null
    /\ sidecar.warnings = <<"no_audio_stream">>

\* The timestamps that parse from the creation-date keys of the format tags and
\* of the tags of every stream, of any type.
AllTagDates ==
    TagCandidates(_normalise_tags(FormatInfo(raw).tags)) \cup
    UNION {TagCandidates(_normalise_tags(raw.streams[i].tags)) : i \in 1..Len(raw.streams)}

\* C9: the creation time is SourceContext.created_time when present; else a
\* tag-derived date when any known tag parses; else SourceContext.modified_time;
\* else the moment of normalization.
C9_CreatedTimePriority ==
    pc = "parsed" =>
        LET created == sidecar.source.created_time
        IN  IF source_ctx.created_time # NoTime
            THEN created = _format_datetime(source_ctx.created_time)
            ELSE IF AllTagDates # {}
            THEN created \in {_format_datetime(c) : c \in AllTagDates}
            ELSE IF source_ctx.modified_time # NoTime
            THEN created = _format_datetime(source_ctx.modified_time)
            ELSE created = sidecar.provenance.ingested_at

\* C10: without SourceContext.created_time, the creation time is the earliest of
\* the timestamps parsed from the known keys of the format tags and of the tags
\* of every stream, whatever its type.
C10_EarliestTagDate ==
    (pc = "parsed" /\ source_ctx.created_time = NoTime /\ AllTagDates # {}) =>
        sidecar.source.created_time = _format_datetime(Min(AllTagDates))

(* ------------------------------------------------- the identity module *)
RECURSIVE SetToSeq(_)
SetToSeq(set) ==
    IF set = {} THEN <<>>
    ELSE LET x == CHOOSE x \in set : TRUE IN <<x>> \o SetToSeq(set \ {x})

\* A directory of every file of LocalFiles, and one path with no file.
InitIdentity ==
    /\ InitCommon
    /\ raw = [format |-> GoodFormat(NS(2000), NoTags), streams |-> <<>>]
    /\ source_ctx = BaseContext(NoTime, 9)
    /\ now = MaxClock
    /\ disk = SetToSeq(LocalFiles) \o <<NoFile>>
    /\ identity = NoIdentity
    /\ prev_identity = NoIdentity

NextIdentity == Derive \/ DeriveFails \/ Sign

SpecIdentity == InitIdentity /\ [][NextIdentity]_vars

(* ------------------------------------- rendering a source that is absent *)
InitAbsent ==
    /\ InitCommon
    /\ \E duration \in {Absent, NS(60000)} :
        raw = [format |-> GoodFormat(duration, NoTags),
               streams |-> Indexed(<<VideoStream("h264", Disp(1), I(640), I(360), NoTags)>>,
                                   "position")]
    /\ source_ctx = BaseContext(NoTime, 9)
    /\ now = MaxClock
    /\ disk \in {<<SourceFile>>, <<NoFile>>}
    /\ identity = NoIdentity
    /\ prev_identity = NoIdentity

NextAbsent == Derive \/ DeriveFails \/ ParseReturns \/ Render

SpecAbsent == InitAbsent /\ [][NextAbsent]_vars

(* ------------------------------------------------ manifest seeding (C11) *)
\* A seeded slot: no file yet.
Placeholder(slot) == slot.path = S("") /\ slot.width_px = I(0) /\ slot.height_px = I(0)

\* t is an integer nearest to a/b (b > 0).
Nearest(t, a, b) ==
    LET diff == b * t - a
    IN  2 * (IF diff < 0 THEN 0 - diff ELSE diff) <= b

\* C11: for every parsed duration d the poster is seeded at exactly d/2 when
\* d > 0 and at 0.0 otherwise; no sample is seeded when d < 60.0 and exactly two,
\* at exactly 0.2*d then 0.8*d, when d >= 60.0; every slot is a placeholder.
C11_ManifestSeeding ==
    pc = "parsed" =>
        LET d == parsed.format.duration_s.n
            poster == parsed.thumbnails.poster
            samples == parsed.thumbnails.samples
        IN  /\ Placeholder(poster)
            /\ d > 0 => 2 * poster.timestamp_s.n = d
            /\ d <= 0 => poster.timestamp_s.n = 0
            /\ d < SampleThresholdMs => samples = <<>>
            /\ d >= SampleThresholdMs =>
                  /\ Len(samples) = 2
                  /\ 10 * samples[1].timestamp_s.n = 2 * d
                  /\ 10 * samples[2].timestamp_s.n = 8 * d
                  /\ Placeholder(samples[1]) /\ Placeholder(samples[2])

\* C11 (amended): the same seeding, each timestamp being the value rounded to 3
\* decimals, i.e. a whole millisecond nearest to d/2, 0.2*d or 0.8*d.
C11_ManifestSeedingRounded ==
    pc = "parsed" =>
        LET d == parsed.format.duration_s.n
            poster == parsed.thumbnails.poster
            samples == parsed.thumbnails.samples
        IN  /\ Placeholder(poster)
            /\ d > 0 => Nearest(poster.timestamp_s.n, d, 2)
            /\ d <= 0 => poster.timestamp_s.n = 0
            /\ d < SampleThresholdMs => samples = <<>>
            /\ d >= SampleThresholdMs =>
                  /\ Len(samples) = 2
                  /\ Nearest(samples[1].timestamp_s.n, 2 * d, 10)
                  /\ Nearest(samples[2].timestamp_s.n, 8 * d, 10)
                  /\ Placeholder(samples[1]) /\ Placeholder(samples[2])

\* C11 witness: a duration of exactly 60.0 seeds the two samples 12.0 and 48.0
\* and the poster 30.0.
C11_Witness ==
    /\ pc = "parsed"
    /\ parsed.format.duration_s.n = SampleThresholdMs
    /\ parsed.thumbnails.poster.timestamp_s.n = 30000
    /\ Len(parsed.thumbnails.samples) = 2
    /\ parsed.thumbnails.samples[1].timestamp_s.n = 12000
    /\ parsed.thumbnails.samples[2].timestamp_s.n = 48000

(* ------------------------------------------------ duration fallback (C12) *)
\* The value under format.duration, None when the key or the format is missing.
RawDuration == Get(FormatInfo(raw).duration)

\* float() accepts a number, a bool and a decimal numeral.
DurationParses == RawDuration.t \in {"numstr", "float", "int", "bool"}

\* C12: a duration that is missing, null, "", "N/A" or not a number gives
\* duration_s 0.0, the warning duration_unavailable, the poster at 0.0 and no
\* samples; a duration that parses gives no duration_unavailable.
C12_DurationFallback ==
    pc = "parsed" =>
        /\ ~DurationParses =>
              /\ parsed.format.duration_s = F(0)
              /\ "duration_unavailable" \in Elements(parsed.warnings)
              /\ parsed.thumbnails.poster.timestamp_s = F(0)
              /\ parsed.thumbnails.samples = <<>>
        /\ DurationParses => "duration_unavailable" \notin Elements(parsed.warnings)

\* C12 witness: a duration of text that is no number was normalised.
C12_Witness ==
    /\ pc = "parsed"
    /\ RawDuration = S("abc")
    /\ parsed.format.duration_s = F(0)
    /\ "duration_unavailable" \in Elements(parsed.warnings)

(* ------------------------------------------------- warnings order (C13) *)
\* The place of a warning code in Python's string order.
Rank(w) == CHOOSE i \in 1..Len(WarningOrder) : WarningOrder[i] = w

\* Ascending with no duplicates.
StrictlySorted(seq) ==
    \A i \in 1..Len(seq) : \A j \in (i + 1)..Len(seq) : Rank(seq[i]) < Rank(seq[j])

\* Some slot of the last render failed.
SomeSlotFailed == \E i \in 1..Len(tool.outcomes) : tool.outcomes[i] # "ok"

\* C13: the warnings of every sidecar parse or render returns are sorted
\* ascending without duplicates; render adds thumbnail_generation_failed, once,
\* exactly when at least one slot failed, and leaves the other warnings as they were.
C13_WarningsSorted ==
    /\ pc \in {"parsed", "rendered"} => StrictlySorted(sidecar.warnings)
    /\ pc = "rendered" =>
          /\ Elements(sidecar.warnings) \ {"thumbnail_generation_failed"}
                = Elements(parsed.warnings)
          /\ SomeSlotFailed <=>
                Cardinality({i \in 1..Len(sidecar.warnings) :
                                 sidecar.warnings[i] = "thumbnail_generation_failed"}) = 1
          /\ ~SomeSlotFailed => sidecar.warnings = parsed.warnings

\* C13 witness: all three slots failed on a probe without audio, and the one
\* failure warning follows no_audio_stream.
C13_Witness ==
    /\ pc = "rendered"
    /\ tool.outcomes = <<"decode_fail", "decode_fail", "tool_fail">>
    /\ sidecar.warnings = <<"no_audio_stream", "thumbnail_generation_failed">>

(* ---------------------------------------------------- render frame (C14) *)
\* A sidecar without the two fields render_thumbnails may write.
OutsideRenderFrame(doc) == [doc EXCEPT !.thumbnails = Null, !.warnings = <<>>]

\* The timestamps of a list of slots.
Timestamps(slots) == [i \in 1..Len(slots) |-> slots[i].timestamp_s]

\* C14: when render_thumbnails has finished, every field of the sidecar other
\* than thumbnails and warnings is as parse_ffprobe_json returned it, the poster
\* keeps its timestamp, and the samples left in the manifest keep theirs.
C14_RenderFrame ==
    /\ pc \in {"rendered", "render_raised"} =>
          /\ OutsideRenderFrame(sidecar) = OutsideRenderFrame(parsed)
          /\ sidecar.thumbnails.poster.timestamp_s = parsed.thumbnails.poster.timestamp_s
    /\ pc = "rendered" =>
          Timestamps(sidecar.thumbnails.samples)
            = Timestamps(Pick(parsed.thumbnails.samples, RenderedSamples, 1))
    /\ pc = "render_raised" =>
          Timestamps(sidecar.thumbnails.samples) = Timestamps(parsed.thumbnails.samples)

\* C14 witness: a render that rewrote the poster, dropped a sample and added a
\* warning, on a sidecar with a video summary and streams.
C14_Witness ==
    /\ pc = "rendered"
    /\ tool.outcomes = <<"ok", "tool_fail", "ok">>
    /\ sidecar.thumbnails # parsed.thumbnails
    /\ sidecar.warnings # parsed.warnings
    /\ sidecar.video # Null
    /\ sidecar.streams # <<>>

(* --------------------------------------------------- identity mode (C15) *)
StartsWith(seq, prefix) == Len(seq) >= Len(prefix) /\ SubSeq(seq, 1, Len(prefix)) = prefix

\* seq without its first n characters.
After(seq, n) == SubSeq(seq, n + 1, Len(seq))

Sha256Prefix == <<"s", "h", "a", "2", "5", "6", ":">>
WeakPrefix == <<"w", "e", "a", "k", ":">>

\* C15: a derivation is strong exactly when there is no threshold or the size
\* is at most the threshold; strong gives "sha256:" + digest of the content,
\* algo sha256, quality strong; weak gives "weak:" + signature, algo weak,
\* quality weak; the id after its prefix is hash.value in both.
C15_IdentityMode ==
    identity.call = "derive" =>
        IF identity.threshold = NoThreshold \/ identity.size_bytes <= identity.threshold
        THEN /\ StartsWith(identity.asset_id, Sha256Prefix)
             /\ After(identity.asset_id, Len(Sha256Prefix)) = identity.hash.value
             /\ identity.hash.value = sha256(identity.content)
             /\ identity.hash.algo = "sha256"
             /\ identity.hash_quality = "strong"
        ELSE /\ StartsWith(identity.asset_id, WeakPrefix)
             /\ After(identity.asset_id, Len(WeakPrefix)) = identity.hash.value
             /\ identity.hash.value =
                    md5(WeakPayload(identity.filename, identity.size_bytes,
                                    identity.modified_time))
             /\ identity.hash.algo = "weak"
             /\ identity.hash_quality = "weak"

\* C15 witness: a file of exactly the threshold was hashed strongly, after a
\* larger one was hashed weakly.
C15_Witness ==
    /\ identity.call = "derive"
    /\ identity.size_bytes = 1 /\ identity.threshold = 1
    /\ identity.hash_quality = "strong"
    /\ prev_identity.call = "derive"
    /\ prev_identity.size_bytes = 2 /\ prev_identity.threshold = 1
    /\ prev_identity.hash_quality = "weak"

(* ---------------------------------------------- identity as a function (C16) *)
\* Both of the last two calls were derivations of the given quality.
BothDerived(quality) ==
    /\ identity.call = "derive" /\ identity.hash_quality = quality
    /\ prev_identity.call = "derive" /\ prev_identity.hash_quality = quality

\* The second (UTC) a modification time falls in.
SecondOf(modified_time) ==
    (modified_time.wall - modified_time.off) \div HalfSecondsPerSecond

HasSignature(c) == c.call = "sign" \/ (c.call = "derive" /\ c.hash_quality = "weak")

\* (filename, size or unknown, modification second or missing) of a call.
Triple(c) ==
    <<c.filename, c.size_bytes,
      IF c.modified_time = NoMtime THEN NoTime ELSE SecondOf(c.modified_time)>>

\* C17: two weak signatures are equal exactly when their (filename, size,
\* modification second) triples are equal: "filename|size|mtime" is injective,
\* also for a filename that holds "|", and the hash is collision-free.
C17_WeakSensitivity ==
    (HasSignature(identity) /\ HasSignature(prev_identity)) =>
        (Triple(identity) = Triple(prev_identity)
            <=> identity.hash.value = prev_identity.hash.value)

\* C17 witness: a filename holding "|" followed by a digit, against the
\* filename before the "|" with that digit as its size: different signatures.
C17_Witness ==
    /\ identity.call = "sign" /\ prev_identity.call = "sign"
    /\ identity.filename = <<"a", "|", "1">>
    /\ prev_identity.filename = <<"a">> /\ prev_identity.size_bytes = 1
    /\ identity.modified_time = prev_identity.modified_time
    /\ identity.hash.value # prev_identity.hash.value

(* ------------------------------------------------- absent source (C18) *)
\* C18: while the source media file is absent, neither identity derivation nor
\* thumbnail rendering returns a result: each fails with input-not-found.
C18_AbsentSourceFails ==
    ~disk[SourcePath].present =>
        /\ identity.call # "derive"
        /\ pc # "rendered"
(* ------------------------------------------------------- the jobs API *)
InitJobs ==
    /\ InitCommon
    /\ raw = [format |-> GoodFormat(NS(2000), NoTags), streams |-> <<>>]
    /\ source_ctx = BaseContext(NoTime, 9)
    /\ now = MaxClock
    /\ disk \in {<<SourceFile>>, <<NoFile>>}
    /\ identity = NoIdentity
    /\ prev_identity = NoIdentity

NextJobs == enqueue_thumbnails \/ enqueue_sidecar

SpecJobs == InitJobs /\ [][NextJobs]_vars

(* ------------------------------------------ the tool-version cache *)
InitVersions ==
    /\ InitCore
    /\ schema_importable
    /\ raw = [format |-> GoodFormat(NS(2000), NoTags), streams |-> <<>>]
    /\ source_ctx = BaseContext(NoTime, 9)
    /\ now = MaxClock
    /\ InitSource
    /\ tool_env \in [Tools -> ToolOutcomes]
    /\ NoLookups
    /\ NoRenders
    /\ naming = NoNaming
    /\ NoStores

NextVersions == LookupCalls \/ LookupInvokes \/ LookupStores \/ LookupEnds

SpecVersions == InitVersions /\ [][NextVersions]_vars

(* ------------------------------------------ two renders side by side *)
\* render_thumbnails is called on the sidecar of an asset: thumbs_root is
\* made, the warnings are read.
RenderCalled ==
    /\ \E asset_id \in RenderAssets, duration \in RenderDurations, height \in DecodedHeights :
        /\ renders[asset_id].pc = "idle"
        /\ renders' = [renders EXCEPT ![asset_id] =
                Rendering("running", ProbedSidecar(asset_id, duration),
                          ProbedSidecar(asset_id, duration), 0, <<>>, FALSE, <<>>, height,
                          files, {})]
    /\ UNCHANGED <<pipevars, idvars, jobvars, vervars, naming, storevars>>

\* A call extracts its next slot.
RenderExtracts ==
    /\ \E asset_id \in RenderAssets, outcome \in ExtractOutcomes :
        LET call == renders[asset_id]
            step == ExtractSlot(call, files, outcome)
        IN  /\ call.pc = "running"
            /\ call.i <= Len(call.sidecar.thumbnails.samples)
            /\ renders' = [renders EXCEPT ![asset_id] = step.call]
            /\ files' = step.files
    /\ UNCHANGED <<schema_importable, raw, source_ctx, now, pc, sidecar, parsed, prev, tool>>
    /\ UNCHANGED <<idvars, jobvars, vervars, naming, storevars>>

\* A call is through its slots and returns the sidecar.
RenderReturns ==
    /\ \E asset_id \in RenderAssets :
        LET call == renders[asset_id]
        IN  /\ call.pc = "running"
            /\ call.i > Len(call.sidecar.thumbnails.samples)
            /\ renders' = [renders EXCEPT ![asset_id] = RenderEnd(call)]
    /\ UNCHANGED <<pipevars, idvars, jobvars, vervars, naming, storevars>>

\* Files left by earlier renders of the two assets.
EarlierFiles ==
    {{}, {PosterFile("sha256:ab"), SampleFile("sha256:ab", 12000), PosterFile("weak:cd"),
          SampleFile("weak:cd", 48000)}}

InitRenders ==
    /\ schema_importable = TRUE
    /\ pc = "start"
    /\ sidecar = NoDoc
    /\ parsed = NoDoc
    /\ prev = NoDoc
    /\ files \in EarlierFiles
    /\ tool = NoTool
    /\ jobs = <<>>
    /\ response = NoResponse
    /\ worker = NoWorker
    /\ raw = [format |-> GoodFormat(NS(2000), NoTags), streams |-> <<>>]
    /\ source_ctx = BaseContext(NoTime, 9)
    /\ now = MaxClock
    /\ InitSource
    /\ tool_env = [cmd \in Tools |-> "version"]
    /\ NoLookups
    /\ NoRenders
    /\ naming = NoNaming
    /\ NoStores

NextRenders == RenderCalled \/ RenderExtracts \/ RenderReturns

SpecRenders == InitRenders /\ [][NextRenders]_vars

(* ------------------------------------------ the names of the files *)
\* Sample timestamps in milliseconds: around zero, around the ties whose
\* product is inexact, around 12.345 s and around the fifth digit.
NamingTimestamps ==
    (0 - 3..130) \cup (540..580) \cup (12340..12350) \cup (99990..100000)

\* Durations in milliseconds from the sample threshold on.
NamingDurations == (60000..60010) \cup {61725, 100000, 3600000}

\* The file of a sample at a timestamp is named.
NameSample ==
    /\ \E timestamp_ms \in NamingTimestamps :
        naming' = Naming("sample", timestamp_ms,
                         <<FileName(SampleFile("sha256:test", timestamp_ms))>>)
    /\ UNCHANGED <<pipevars, idvars, jobvars, vervars, renders, storevars>>

\* The files of the manifest seeded for a duration are named.
NameManifest ==
    /\ \E duration_ms \in NamingDurations :
        naming' = Naming("manifest", duration_ms,
                         ManifestNames("sha256:test",
                                       _initial_thumbnail_manifest(duration_ms, 0)))
    /\ UNCHANGED <<pipevars, idvars, jobvars, vervars, renders, storevars>>

InitNaming ==
    /\ InitCommon
    /\ schema_importable
    /\ raw = [format |-> GoodFormat(NS(2000), NoTags), streams |-> <<>>]
    /\ source_ctx = BaseContext(NoTime, 9)
    /\ now = MaxClock
    /\ InitSource

NextNaming == NameSample \/ NameManifest

SpecNaming == InitNaming /\ [][NextNaming]_vars

(* ------------------------------------------ the sidecar is written *)
\* After render_thumbnails returned, the sidecar job or the CLI sidecar
\* command dumps the document to the sidecars directory; export_schema has
\* run before, so the schema module is importable.
WriteSidecar ==
    /\ pc = "rendered"
    /\ schema_importable
    /\ \E writer \in SidecarWriters :
        /\ sidecar' = Dumped(writer, sidecar)
        /\ sidecar_file' = Dumped(writer, sidecar)
    /\ pc' = "written"
    /\ UNCHANGED <<schema_importable, raw, source_ctx, now, parsed, prev, files, tool>>
    /\ UNCHANGED <<idvars, jobvars, vervars, renders, naming, assets, sessions>>

InitSidecar ==
    /\ InitCommon
    /\ InitSource
    /\ \E streams \in SeqsUpTo(PipelineStreams, 1), duration \in {NS(2000), NS(60000)} :
        raw = [format |-> GoodFormat(duration, NoTags), streams |-> Indexed(streams, "position")]
    /\ source_ctx = BaseContext(NoTime, 9)
    /\ now = 1

NextSidecar == ParseReturns \/ ParseFails \/ Render \/ WriteSidecar

SpecSidecar == InitSidecar /\ [][NextSidecar]_vars

(* ------------------------------------------ uploads are committed *)
\* The uploads of the two orgs: org-b holds a byte-identical copy of a file of
\* org-a (same name, size and mtime) and a file of its own.
Uploads ==
    {[org_id |-> "org-a", source_uri |-> "file:///uploads/org-a/u1/a",
      file |-> File(<<"a">>, <<"x", "y">>, 1)],
     [org_id |-> "org-b", source_uri |-> "file:///uploads/org-b/u2/a",
      file |-> File(<<"a">>, <<"x", "y">>, 1)],
     [org_id |-> "org-b", source_uri |-> "file:///uploads/org-b/u3/a",
      file |-> File(<<"a">>, <<"y">>, 0)]}

\* weak_threshold_bytes of the commit request: none, or below the larger file.
CommitThresholds == {NoThreshold, 1}

\* POST /v1/ingest/commit by an org for an upload: the org check passes (the
\* caller is the org it names), the asset row is added or updated.
CommitUpload ==
    /\ \E s \in 1..MaxSessions, upload \in Uploads,
          weak_threshold_bytes \in CommitThresholds :
        LET org_id == upload.org_id
        IN
        /\ sessions[s].pc = "idle"
        /\ _verify_org(org_id, org_id)
        /\ assets' = commit_upload(assets, org_id, upload.source_uri, upload.file,
                                   weak_threshold_bytes)
        /\ sessions' = [sessions EXCEPT ![s] =
                           Session("commit_upload", "returned", org_id, upload.source_uri,
                                   "", Null, 0, 0, "")]
    /\ UNCHANGED <<pipevars, idvars, jobvars, vervars, renders, naming, sidecar_file>>

\* The request of a session is answered and the session closed.
SessionCloses ==
    /\ \E s \in 1..MaxSessions :
        /\ sessions[s].pc \in {"returned", "raised"}
        /\ sessions' = [sessions EXCEPT ![s] = NoSession]
    /\ UNCHANGED <<pipevars, idvars, jobvars, vervars, renders, naming, sidecar_file, assets>>

\* One process with its database: no asset, no job, every session idle.
InitCommits ==
    /\ InitCore
    /\ schema_importable
    /\ raw = [format |-> GoodFormat(NS(2000), NoTags), streams |-> <<>>]
    /\ source_ctx = BaseContext(NoTime, 9)
    /\ now = MaxClock
    /\ InitSource
    /\ tool_env = [cmd \in Tools |-> "version"]
    /\ NoLookups
    /\ NoRenders
    /\ naming = NoNaming
    /\ sidecar_file = NoDoc
    /\ assets = <<>>
    /\ sessions = [s \in 1..MaxSessions |-> NoSession]

NextCommits == CommitUpload \/ SessionCloses

SpecCommits == InitCommits /\ [][NextCommits]_vars

(* ------------------------------------------ concurrent enqueues *)
\* A request of org-a reaches enqueue_job: ensure_org finds the org.
EnqueueCalled ==
    /\ \E s \in 1..MaxSessions, job_type \in JobType, idempotency_key \in SharedKeys :
        LET org_id == "org-a"
        IN
        /\ sessions[s].pc = "idle"
        /\ sessions' = [sessions EXCEPT ![s] =
                           Session("enqueue_job", "called", org_id, "", job_type,
                                   idempotency_key, 0, 0, "")]
    /\ UNCHANGED <<pipevars, idvars, jobvars, vervars, renders, naming, sidecar_file, assets>>

\* _upsert_job: the select on (org_id, idempotency_key) and the if-block on
\* its result.
UpsertLooksUp ==
    /\ \E s \in 1..MaxSessions :
        LET existing == Existing(jobs, sessions[s].org_id, sessions[s].idempotency_key)
        IN  /\ sessions[s].pc = "called"
            /\ sessions' = [sessions EXCEPT ![s] =
                    IF Truthy(sessions[s].idempotency_key) /\ existing # {}
                    THEN UpsertFound(sessions[s], jobs, CHOOSE i \in existing : TRUE)
                    ELSE [sessions[s] EXCEPT !.pc = "looked_up"]]
    /\ UNCHANGED <<pipevars, idvars, jobvars, vervars, renders, naming, sidecar_file, assets>>

\* _upsert_job: the new row is added and committed.
UpsertInserts ==
    /\ \E s \in 1..MaxSessions :
        LET done == UpsertInsert(sessions[s], jobs)
        IN  /\ sessions[s].pc = "looked_up"
            /\ sessions' = [sessions EXCEPT ![s] = done.session]
            /\ jobs' = done.table
    /\ UNCHANGED <<pipevars, idvars, response, worker, vervars, renders, naming, sidecar_file,
                   assets>>

\* enqueue_job: the immediate backend runs the job, the job is returned.
BackendRuns ==
    /\ \E s \in 1..MaxSessions :
        /\ sessions[s].pc = "upserted"
        /\ jobs' = run_job(jobs, sessions[s].job_id, TRUE)
        /\ sessions' = [sessions EXCEPT ![s].pc = "returned"]
    /\ UNCHANGED <<pipevars, idvars, response, worker, vervars, renders, naming, sidecar_file,
                   assets>>

NextEnqueues ==
    EnqueueCalled \/ UpsertLooksUp \/ UpsertInserts \/ BackendRuns \/ SessionCloses

SpecEnqueues == InitCommits /\ [][NextEnqueues]_vars

(* ------------------------------------------ a job run step by step *)
NextWorker ==
    EnqueueJob \/ JobStarts \/ StageCompletes \/ StageRaises \/ JobSucceeds \/ EnqueueReturns

\* One process, its schema module importable, the source file in place.
InitWorker ==
    /\ InitJobs
    /\ schema_importable
    /\ disk = <<SourceFile>>

SpecWorker == InitWorker /\ [][NextWorker]_vars

(* ------------------------------------------------------------ C19 *)
\* The streams the normalizer takes for video, as probed.
RawVideoStreams == _parse_streams(raw.streams).video_streams

\* The fields of the selected video stream, as probed.
SelectedVideo == _select_video_stream(RawVideoStreams).raw

\* What a rate field says, in hundredths, or Null when it says nothing: a
\* string "n/d" with d # 0 is n/d, a bare numeral is its number.
RateOf(v) ==
    IF v.t = "ratstr" /\ v.d > 0 THEN F(RoundDiv(100 * v.n, v.d))
    ELSE IF v.t = "numstr" THEN F(100 * v.n)
    ELSE Null

\* C19: the frame rate of the selected video stream is what avg_frame_rate
\* says when it parses, else what r_frame_rate says, else null; "30000/1001"
\* is 29.97 and "24/1" is 24.0; frame_rate_unavailable is among the warnings
\* exactly when a video stream is selected and neither field parses.
C19_FrameRate ==
    pc = "parsed" =>
        /\ RawVideoStreams # <<>> =>
              LET avg == RateOf(SelectedVideo.avg_frame_rate)
                  real == RateOf(SelectedVideo.r_frame_rate)
              IN  /\ avg # Null => parsed.video.frame_rate_fps = avg
                  /\ avg = Null => parsed.video.frame_rate_fps = real
                  /\ SelectedVideo.avg_frame_rate = Rat(30000, 1001)
                        => parsed.video.frame_rate_fps = F(2997)
                  /\ SelectedVideo.avg_frame_rate = Rat(24, 1)
                        => parsed.video.frame_rate_fps = F(2400)
        /\ "frame_rate_unavailable" \in Elements(parsed.warnings)
              <=> /\ RawVideoStreams # <<>>
                  /\ RateOf(SelectedVideo.avg_frame_rate) = Null
                  /\ RateOf(SelectedVideo.r_frame_rate) = Null

\* C19 witness: avg_frame_rate "0/0" fell back to r_frame_rate "30000/1001",
\* which gave 29.97 and no warning.
C19_Witness ==
    /\ pc = "parsed"
    /\ RawVideoStreams # <<>>
    /\ SelectedVideo.avg_frame_rate = S("0/0")
    /\ SelectedVideo.r_frame_rate = Rat(30000, 1001)
    /\ parsed.video.frame_rate_fps = F(2997)
    /\ "frame_rate_unavailable" \notin Elements(parsed.warnings)

(* ------------------------------------------------------------ C20 *)
\* The last step was the enqueue request of these arguments, made by the
\* org itself.
Enqueued(job_type, org_id, asset_id, weak_threshold_bytes, idempotency_key) ==
    LET done == Enqueue(jobs, job_type, org_id, org_id, asset_id, weak_threshold_bytes,
                        idempotency_key, disk[SourcePath].present)
    IN  /\ Len(done.table) <= MaxJobs
        /\ response' = done.response
        /\ jobs' = done.table

\* C20: an enqueue request that passes the org check and finds its asset,
\* carrying an Idempotency-Key some job of the org already has, returns that
\* job's job_id and adds no row when its payload and job type equal the job's,
\* and fails with 409 idempotency_conflict, leaving the table as it was, when
\* they differ.
C20_EnqueueIdempotent ==
    [][\A job_type \in JobType, org_id \in Orgs, asset_id \in Assets,
          weak_threshold_bytes \in WeakThresholds,
          idempotency_key \in IdempotencyKeys \ {Null} :
            (/\ Enqueued(job_type, org_id, asset_id, weak_threshold_bytes, idempotency_key)
             /\ get_asset_snapshot(org_id, asset_id)
             /\ Existing(jobs, org_id, idempotency_key) # {})
            => LET found == jobs[CHOOSE i \in Existing(jobs, org_id, idempotency_key) : TRUE]
                   payload == Payload(job_type, org_id, asset_id, weak_threshold_bytes)
               IN  IF found.payload = payload /\ found.job_type = job_type
                   THEN /\ response'.code = 202
                        /\ response'.job_id = found.job_id
                        /\ Len(jobs') = Len(jobs)
                   ELSE /\ response'.code = 409
                        /\ response'.detail = "idempotency_conflict"
                        /\ jobs' = jobs]_vars

(* ------------------------------------------------------------ C21 *)
\* enqueue_job has returned the job of the last request.
Returned == response.code = 202 /\ worker.pc = "idle"

\* C21: when enqueue_job returns, the job is succeeded or failed; it is
\* succeeded with a result when no stage raised and failed with an error
\* message when one did; a job the request added went queued, running,
\* then succeeded or failed.
C21_TerminalOnReturn ==
    Returned =>
        LET job == jobs[response.job_id]
        IN  /\ job.status \in {"succeeded", "failed"}
            /\ worker.raised = "" => (job.status = "succeeded" /\ job.result # Null)
            /\ worker.raised # "" => (job.status = "failed" /\ job.error # Null)
            /\ worker.created =>
                  worker.seen \in {<<"queued", "running", "succeeded">>,
                                   <<"queued", "running", "failed">>}

\* C21 witness: a sidecar job the request added failed at persist_sidecar
\* and the request returned.
C21_Witness ==
    /\ Returned
    /\ worker.created
    /\ worker.raised = "persist_sidecar"
    /\ jobs[response.job_id].status = "failed"
    /\ jobs[response.job_id].error = S("persist_sidecar")

(* ------------------------------------------------------------ C28 *)
\* C28: a job that has reached succeeded or failed keeps its status, result,
\* error and finished_at through every later step of every enqueue request.
C28_TerminalIsFinal ==
    [][\A j \in DOMAIN jobs :
          jobs[j].status \in {"succeeded", "failed"} =>
              /\ jobs'[j].status = jobs[j].status
              /\ jobs'[j].result = jobs[j].result
              /\ jobs'[j].error = jobs[j].error
              /\ jobs'[j].finished_at = jobs[j].finished_at]_vars

(* ------------------------------------------------------------ C22 *)
\* C22: under every interleaving of the calls of one process, all calls for
\* a tool end with one and the same version string, and a call whose tool
\* invocation fails returns "unknown".
C22_VersionConsistent ==
    \A cmd \in Tools :
        /\ Cardinality(version_results[cmd]) <= 1
        /\ S("raised") \notin version_results[cmd]
        /\ tool_env[cmd] \in {"tool_fail", "missing_binary", "os_error"}
              => version_results[cmd] \subseteq {S("unknown")}

(* ------------------------------------------------------------ C23 *)
\* The files under the thumbnail directory of an asset.
Under(asset_id, disk_files) == {f \in disk_files : f.asset = asset_id}

\* The call of an asset, run alone on the disk it started on.
Alone(call) ==
    render_thumbnails(call.given, call.before,
                      [i \in 1..(1 + Len(call.given.thumbnails.samples)) |->
                          IF i <= Len(call.outcomes) THEN call.outcomes[i] ELSE "ok"],
                      call.height)

C24_ReturnedIsValidated == pc = "parsed" => Sidecar(parsed)

CentisecondsOf(name) == SubSeq(name, 2, Len(name) - 4)

\* C26: the poster file is poster.jpg; a sample file is t<cs>.jpg, cs being
\* the timestamp, clamped at 0, rounded to a nearest centisecond and written
\* with at least 4 digits, and 12.345 s gives t1235.jpg; the two samples of a
\* manifest seeded for a duration of 60 s or more get different names.
C26_FileNames ==
    /\ naming.kind = "sample" =>
          LET clamped == IF naming.ms > 0 THEN naming.ms ELSE 0
              name == naming.names[1]
          IN  /\ \E cs \in (clamped \div 10)..((clamped \div 10) + 1) :
                    /\ 10 * cs - clamped \in (0 - 5)..5
                    /\ name = <<"t">> \o ZeroPad(Str(cs), 4) \o <<".", "j", "p", "g">>
              /\ Len(CentisecondsOf(name)) >= 4
              /\ naming.ms = 12345 =>
                    name = <<"t", "1", "2", "3", "5", ".", "j", "p", "g">>
    /\ naming.kind = "manifest" =>
          /\ naming.names[1] = <<"p", "o", "s", "t", "e", "r", ".", "j", "p", "g">>
          /\ Len(naming.names) = 3
          /\ naming.names[2] # naming.names[3]

(* ------------------------------------------------------------ C27 *)
\* The document as it stood when Sidecar.model_validate last accepted it: the
\* self-check of parse_ffprobe_json is the one validation of the pipeline.
LastValidated == IF schema_importable THEN parsed ELSE NoDoc

\* C27: the document written to the sidecars directory is the enriched
\* sidecar as a schema validation after render_thumbnails accepted it.
C27_ValidatedBeforeWrite == sidecar_file # NoDoc => sidecar_file = LastValidated

(* ------------------------------------------------------------ C29 *)
\* C29: a commit_upload of one org leaves every Asset row of another org as
\* it was, also when the committed content derives the asset_id of that row.
C29_TenantIsolation ==
    [][\A s \in 1..MaxSessions :
          (sessions'[s] # sessions[s] /\ sessions'[s].op = "commit_upload") =>
              \A i \in DOMAIN assets :
                  assets[i].org_id # sessions'[s].org_id => assets'[i] = assets[i]]_vars

(* ------------------------------------------------------------ C30 *)
\* C30: however concurrent enqueue_job calls of one org with one
\* Idempotency-Key, one job type and equal payloads interleave, the jobs table
\* holds at most one row of that (org_id, key), no call fails on the row
\* another call inserted between its lookup and its insert, and a call that
\* returned gives the job_id of that row.
C30_ConcurrentEnqueue ==
    /\ \A org_id \in Orgs, idempotency_key \in SharedKeys :
          Cardinality(Existing(jobs, org_id, idempotency_key)) <= 1
    /\ \A s \in 1..MaxSessions :
          sessions[s].op = "enqueue_job" =>
              /\ sessions[s].raised # "IntegrityError"
              /\ sessions[s].pc = "returned" =>
                    sessions[s].job_id \in Existing(jobs, sessions[s].org_id,
                                                    sessions[s].idempotency_key)

====
